---- MODULE Spec2Model ----
(***************************************************************************)
(* Model of the exact nearest-neighbour search of docarray                 *)
(* (docarray/utils/find.py): find, find_batched, get_result and the        *)
(* embedding extraction helpers, with the chunked worker-pool path          *)
(* (specification Spec); of the torch tensor type of                       *)
(* docarray/typing/tensor/torch_tensor.py: validation, protobuf encoding   *)
(* and decoding, memory sharing (specification TensorSpec); and of the     *)
(* list-form and columnar collections: stacking, unstacking, views and     *)
(* their wire encoding (specification StackSpec); and of the embedding     *)
(* types of docarray/typing/tensor/embedding.py (specification             *)
(* EmbeddingSpec).                                                         *)
(*                                                                         *)
(* A tensor is a record [shape, data]: data is the row-major flat content. *)
(* Python positions (top_indices) are 0-based, sequences here are 1-based. *)
(* An Optional[T] argument is <<>> for None and <<v>> for the value v.     *)
(***************************************************************************)
EXTENDS Integers, Sequences, FiniteSets, TLC

\* ------------------------------------------------------------------ bounds
MaxIndex == 2       \* largest index collection (M)
MaxQuery == 3       \* largest query batch (Q)
MaxLimit == 3       \* largest limit passed by a caller
MaxBatch == 3       \* largest positive batch_size
MaxWorker == 2      \* largest num_worker

\* ----------------------------------------------------------- small helpers
None == <<>>
Some(v) == <<v>>
IsNone(o) == Len(o) = 0
Get(o) == o[1]

Min(a, b) == IF a <= b THEN a ELSE b

RECURSIVE SeqSum(_)
SeqSum(s) == IF Len(s) = 0 THEN 0 ELSE Head(s) + SeqSum(Tail(s))

RECURSIVE Flatten(_)
Flatten(ss) == IF Len(ss) = 0 THEN <<>> ELSE Head(ss) \o Flatten(Tail(ss))

RECURSIVE SqrtFrom(_, _)
SqrtFrom(n, r) == IF (r + 1) * (r + 1) > n THEN r ELSE SqrtFrom(n, r + 1)
ISqrt(n) == SqrtFrom(n, 0)

Range(s) == {s[i] : i \in 1..Len(s)}

\* ------------------------------------------------------------------ tensors
Tensor1(v) == [shape |-> <<Len(v)>>, data |-> v]

\* number of rows / row length / i-th row (1-based) of a 2-D tensor
NRows(t) == t.shape[1]
NCols(t) == t.shape[2]
Row(t, i) == SubSeq(t.data, (i - 1) * NCols(t) + 1, i * NCols(t))
Rows(t) == [i \in 1..NRows(t) |-> Row(t, i)]

\* emb.reshape(1, -1): same data, shape (1, size)
Reshape1xN(t) == [shape |-> <<1, Len(t.data)>>, data |-> t.data]

\* the empty tensor, and the zero-length column of a field of shape (dim,)
NoTensor == [shape |-> <<>>, data |-> <<>>]
EmptyColumn(dim) == [shape |-> <<0, dim>>, data |-> <<>>]

\* backend stack(list of tensors): one leading axis of length N; tensors of
\* different shapes cannot be stacked; N = 0 gives a zero-length column.
Stack(ts, dim) ==
    IF Len(ts) = 0
    THEN [ok |-> TRUE, value |-> EmptyColumn(dim)]
    ELSE IF \E i \in 1..Len(ts) : ts[i].shape # ts[1].shape
    THEN [ok |-> FALSE, value |-> NoTensor]
    ELSE [ok |-> TRUE,
          value |-> [shape |-> <<Len(ts)>> \o ts[1].shape,
                     data |-> Flatten([i \in 1..Len(ts) |-> ts[i].data])]]

\* ------------------------------------------------------------------ metrics
\* metric names are character sequences so that str.endswith is computed
cosine_sim == <<"c","o","s","i","n","e","_","s","i","m">>
euclidean_dist == <<"e","u","c","l","i","d","e","a","n","_","d","i","s","t">>
sqeuclidean_dist == <<"s","q","e","u","c","l","i","d","e","a","n","_","d","i","s","t">>
sim_dist == <<"_","s","i","m","_","d","i","s","t">>   \* not a backend metric
BackendMetrics == {cosine_sim, euclidean_dist, sqeuclidean_dist}
MetricNames == BackendMetrics \cup {sim_dist}

\* str.endswith
EndsWith(s, suf) ==
    /\ Len(s) >= Len(suf)
    /\ SubSeq(s, Len(s) - Len(suf) + 1, Len(s)) = suf

Dot(x, y) == SeqSum([i \in 1..Len(x) |-> x[i] * y[i]])
SqDist(x, y) == SeqSum([i \in 1..Len(x) |-> (x[i] - y[i]) * (x[i] - y[i])])

\* Scores are kept on an integer scale that preserves the order of the
\* real-valued metric: cosine in signed squared percent, the euclidean
\* distance in tenths, the squared distance in hundredths.
Score(metric, x, y) ==
    IF metric = cosine_sim
    THEN LET d == Dot(x, y)
             n == Dot(x, x) * Dot(y, y)
         IN  IF n = 0 THEN 0
             ELSE IF d >= 0 THEN (100 * d * d) \div n
             ELSE 0 - ((100 * d * d) \div n)
    ELSE IF metric = euclidean_dist
    THEN ISqrt(100 * SqDist(x, y))
    ELSE 100 * SqDist(x, y)

\* metric_fn(q_embed, index_embeddings): the [Q, M] score matrix, or a shape
\* error when the embedding dimensions differ
metric_fn(metric, q, x) ==
    IF NCols(q) # NCols(x)
    THEN [ok |-> FALSE, err |-> "ShapeMismatch", dists |-> <<>>]
    ELSE [ok |-> TRUE, err |-> "",
          dists |-> [i \in 1..NRows(q) |->
                       [j \in 1..NRows(x) |-> Score(metric, Row(q, i), Row(x, j))]]]

\* ------------------------------------------------------------------- top_k
\* position (1-based) of the best remaining score; the lowest position wins
\* a tie
Best(row, rem, descending) ==
    CHOOSE i \in rem : \A j \in rem :
        \/ j = i
        \/ IF descending THEN row[i] > row[j] ELSE row[i] < row[j]
        \/ row[i] = row[j] /\ i < j

RECURSIVE Select(_, _, _, _)
Select(row, rem, k, descending) ==
    IF k = 0 \/ rem = {} THEN <<>>
    ELSE LET b == Best(row, rem, descending)
         IN  <<b>> \o Select(row, rem \ {b}, k - 1, descending)

\* comp_backend.Retrieval.top_k(dists, k, descending): per row the k best
\* scores, best first, and their 0-based positions; k is clamped to the row
\* length
top_k(dists, k, descending) ==
    LET sel == [r \in 1..Len(dists) |->
                   Select(dists[r], 1..Len(dists[r]),
                          Min(k, Len(dists[r])), descending)]
    IN  [scores  |-> [r \in 1..Len(dists) |->
                        [j \in 1..Len(sel[r]) |-> dists[r][sel[r][j]]]],
         indices |-> [r \in 1..Len(dists) |->
                        [j \in 1..Len(sel[r]) |-> sel[r][j] - 1]]]

\* ------------------------------------------------------------- collections
\* A document is [id, emb]: emb is the value stored at the search field.
\* A piece of data handed to the search is
\*   [kind, field, dim, docs, ids, column]
\* kind "DocList": docs holds the documents, each owning its tensor;
\* kind "DocVec": ids holds the document identities and column the stacked
\*   [N, dim] tensor of the field; kind "BaseDoc": docs holds one document;
\* kind "Tensor": column is the raw tensor.
\* field is the declared type of the search field on the schema:
\*   "tensor" | "union" (a union of tensor variants) | "nontensor" |
\*   "missing" (the access path does not exist)
Doc(id, v) == [id |-> id, emb |-> Tensor1(v)]

DocList(field, dim, docs) ==
    [kind |-> "DocList", field |-> field, dim |-> dim, docs |-> docs,
     ids |-> <<>>, column |-> NoTensor]

BaseDoc(field, dim, doc) ==
    [kind |-> "BaseDoc", field |-> field, dim |-> dim, docs |-> <<doc>>,
     ids |-> <<>>, column |-> NoTensor]

RawTensor(t) ==
    [kind |-> "Tensor", field |-> "tensor", dim |-> 0, docs |-> <<>>,
     ids |-> <<>>, column |-> t]

\* DocList.to_doc_vec(): the tensor field becomes one stacked column
to_doc_vec(dl) ==
    [kind |-> "DocVec", field |-> dl.field, dim |-> dl.dim, docs |-> <<>>,
     ids |-> [i \in 1..Len(dl.docs) |-> dl.docs[i].id],
     column |-> Stack([i \in 1..Len(dl.docs) |-> dl.docs[i].emb], dl.dim).value]

\* len(collection)
len(da) == IF da.kind = "DocVec" THEN Len(da.ids) ELSE Len(da.docs)

\* collection[idx], idx 0-based: the stored document of a DocList, the view
\* document on row idx of a DocVec
getitem(da, idx) ==
    IF da.kind = "DocVec"
    THEN [id |-> da.ids[idx + 1], emb |-> Tensor1(Row(da.column, idx + 1))]
    ELSE da.docs[idx + 1]

\* the documents of a collection, in order
Elements(da) == [i \in 1..len(da) |-> getitem(da, i - 1)]

\* ------------------------------------------------- docarray/utils/find.py
\* _da_attr_type(docs, access_path): the tensor type of the search field,
\* or the error raised while resolving it
da_attr_type(docs) ==
    IF docs.field = "missing"
    THEN [ok |-> FALSE, err |-> "ValueError"]
    ELSE IF docs.field = "union" /\ len(docs) = 0
    THEN [ok |-> FALSE, err |-> "IndexError"]      \* docs[0] on no documents
    ELSE IF docs.field = "nontensor"
    THEN [ok |-> FALSE, err |-> "ValueError"]
    ELSE [ok |-> TRUE, err |-> ""]

\* _extract_embeddings without the branch for columnar data
extract_embeddings_no_docvec(data) ==
    LET st  == Stack([i \in 1..Len(data.docs) |-> data.docs[i].emb], data.dim)
        emb == IF data.kind = "DocList" THEN st.value
               ELSE IF data.kind = "BaseDoc" THEN data.docs[1].emb
               ELSE data.column
    IN  IF data.kind = "DocList" /\ ~st.ok
        THEN [ok |-> FALSE, err |-> "ShapeMismatch", emb |-> NoTensor]
        ELSE IF data.kind = "DocVec"
        THEN [ok |-> FALSE, err |-> "AttributeError", emb |-> NoTensor]
        ELSE [ok |-> TRUE, err |-> "",
              emb |-> IF Len(emb.shape) = 1 THEN Reshape1xN(emb) ELSE emb]

\* _extract_embeddings(data, search_field, embedding_type)
extract_embeddings(data) ==
    LET st  == Stack([i \in 1..Len(data.docs) |-> data.docs[i].emb], data.dim)
        emb == IF data.kind = "DocList" THEN st.value
               ELSE IF data.kind = "DocVec" THEN data.column
               ELSE IF data.kind = "BaseDoc" THEN data.docs[1].emb
               ELSE data.column
    IN  IF data.kind = "DocList" /\ ~st.ok
        THEN [ok |-> FALSE, err |-> "ShapeMismatch", emb |-> NoTensor]
        ELSE [ok |-> TRUE, err |-> "",
              emb |-> IF Len(emb.shape) = 1 THEN Reshape1xN(emb) ELSE emb]

\* _extract_embedding_single reshaping to (-1, 1)
extract_embedding_single_column(data) ==
    LET emb == IF data.kind = "BaseDoc" THEN data.docs[1].emb ELSE data.column
    IN  IF data.kind = "BaseDoc" /\ data.field \in {"nontensor", "missing"}
        THEN [ok |-> FALSE, err |-> "AttributeError", emb |-> NoTensor]
        ELSE [ok |-> TRUE, err |-> "",
              emb |-> IF Len(emb.shape) = 1
                      THEN [shape |-> <<Len(emb.data), 1>>, data |-> emb.data]
                      ELSE emb]

\* _extract_embedding_single(data, search_field): a value without a shape
\* (the value of a field that is no tensor, or no value at all) has no
\* attribute `shape`
extract_embedding_single(data) ==
    LET emb == IF data.kind = "BaseDoc" THEN data.docs[1].emb ELSE data.column
    IN  IF data.kind = "BaseDoc" /\ data.field \in {"nontensor", "missing"}
        THEN [ok |-> FALSE, err |-> "AttributeError", emb |-> NoTensor]
        ELSE [ok |-> TRUE, err |-> "",
              emb |-> IF Len(emb.shape) = 1 THEN Reshape1xN(emb) ELSE emb]

\* get_result selecting in the opposite direction
get_result_flipped(query_embeds, index_embeddings, metric, limit, descending) ==
    LET m == metric_fn(metric, query_embeds, index_embeddings)
        t == top_k(m.dists, limit, ~descending)
    IN  IF ~m.ok
        THEN [ok |-> FALSE, err |-> m.err, top_indices |-> <<>>, top_scores |-> <<>>]
        ELSE [ok |-> TRUE, err |-> "",
              top_indices |-> t.indices, top_scores |-> t.scores]

\* get_result(query_embeds, index_embeddings, ..., metric_fn, limit, descending)
get_result(query_embeds, index_embeddings, metric, limit, descending) ==
    LET m == metric_fn(metric, query_embeds, index_embeddings)
        t == top_k(m.dists, limit, descending)
    IN  IF ~m.ok
        THEN [ok |-> FALSE, err |-> m.err, top_indices |-> <<>>, top_scores |-> <<>>]
        ELSE [ok |-> TRUE, err |-> "",
              top_indices |-> t.indices, top_scores |-> t.scores]

\* default_descending looking for '_sim' at the start of the name
default_descending_startswith(descending, metric) ==
    IF IsNone(descending)
    THEN Len(metric) >= 4 /\ SubSeq(metric, 1, 4) = <<"_","s","i","m">>
    ELSE Get(descending)

\* descending = metric.endswith('_sim') when the caller passed None
default_descending(descending, metric) ==
    IF IsNone(descending) THEN EndsWith(metric, <<"_","s","i","m">>)
    ELSE Get(descending)

\* docs_per_query building a new document for every selected position
docs_per_query_copies(index, indices_per_query) ==
    [j \in 1..Len(indices_per_query) |->
        [id |-> 0, emb |-> getitem(index, indices_per_query[j]).emb]]

\* docs_per_query reading the index at the first selected position only
docs_per_query_first(index, indices_per_query) ==
    [j \in 1..Len(indices_per_query) |-> getitem(index, indices_per_query[1])]

\* the inner loop of find_batched: the documents of one query, read from the
\* index at the selected positions, in selection order
docs_per_query(index, indices_per_query) ==
    [j \in 1..Len(indices_per_query) |-> getitem(index, indices_per_query[j])]

\* batched_docs handing each query row the documents of the next row
batched_docs_rotated(index, top_indices) ==
    [r \in 1..Len(top_indices) |->
        docs_per_query(index, top_indices[(r % Len(top_indices)) + 1])]

\* the result loop of find_batched over one get_result output: one document
\* list and one score sequence per query row
batched_docs(index, top_indices) ==
    [r \in 1..Len(top_indices) |-> docs_per_query(index, top_indices[r])]

\* find_batched with batch_size=None, from the resolved arguments on
single_pass(index, index_embeddings, query, metric, limit, descending) ==
    LET qe == extract_embeddings(query)
        r  == get_result(qe.emb, index_embeddings, metric, limit, descending)
    IN  IF ~qe.ok THEN [ok |-> FALSE, err |-> qe.err, documents |-> <<>>, scores |-> <<>>]
        ELSE IF ~r.ok THEN [ok |-> FALSE, err |-> r.err, documents |-> <<>>, scores |-> <<>>]
        ELSE [ok |-> TRUE, err |-> "",
              documents |-> batched_docs(index, r.top_indices),
              scores |-> r.top_scores]

\* find_batched(index, query, batch_size=None, ...) as one function of its
\* arguments: lines 232-272
find_batched_single(index, query, metric, limit, descending) ==
    LET fail(e) == [ok |-> FALSE, err |-> e, documents |-> <<>>, scores |-> <<>>]
        t  == da_attr_type(index)
        ie == extract_embeddings(index)
    IN  IF ~t.ok THEN fail(t.err)
        ELSE IF ~ie.ok THEN fail(ie.err)
        ELSE IF metric \notin BackendMetrics THEN fail("AttributeError")
        ELSE single_pass(index, ie.emb, query, metric, limit,
                         default_descending(descending, metric))

\* lines 274-278: a raw tensor query of the chunked path becomes a DocList
\* of one document per row, the row being its embedding
wrap_query(query) ==
    IF query.kind = "Tensor"
    THEN DocList("tensor", NCols(query.column),
                 [i \in 1..NRows(query.column) |->
                     [id |-> i, emb |-> Tensor1(Row(query.column, i))]])
    ELSE query

\* ------------------------------------------------- docarray/utils/map.py
\* _map_docs_batched_multiarg(docs, func, batch_size, shuffle, ...): the
\* documents, in order (in the shuffled order perm when shuffle is set), cut
\* into batches of batch_size, the last one possibly smaller
NumBatches(n, batch_size) == (n + batch_size - 1) \div batch_size

\* Batches without the last, smaller batch
Batches_drop_tail(docs, batch_size, perm) ==
    LET n == len(docs)
        e == Elements(docs)
    IN  [k \in 1..(n \div batch_size) |->
            [j \in 1..batch_size |-> e[perm[(k - 1) * batch_size + j]]]]

Batches(docs, batch_size, perm) ==
    LET n == len(docs)
        e == Elements(docs)
    IN  [k \in 1..NumBatches(n, batch_size) |->
            [j \in 1..(Min(k * batch_size, n) - (k - 1) * batch_size) |->
                e[perm[(k - 1) * batch_size + j]]]]

Perms(n) == {p \in [1..n -> 1..n] : \A i, j \in 1..n : p[i] = p[j] => i = j}
Identity(n) == [i \in 1..n |-> i]

\* func(batch, **func_args) in a worker: the batch is what get_result
\* receives as query_embeds; its embeddings form the [n, d] query tensor,
\* which does not exist when they disagree in dimension
run_batch(batch, dim, index_embeddings, metric, limit, descending) ==
    LET st == Stack([i \in 1..Len(batch) |-> batch[i].emb], dim)
    IN  IF ~st.ok
        THEN [ok |-> FALSE, err |-> "ShapeMismatch",
              top_indices |-> <<>>, top_scores |-> <<>>]
        ELSE get_result(st.value, index_embeddings, metric, limit, descending)

\* ------------------------------------------------------------------ inputs
VecA == <<1, 0>>
VecC == <<1, 1>>
VecD == <<0, 2>>
VecBad == <<1>>                     \* an embedding of another dimension
Dim == Len(VecA)
IndexVecs == {VecA, VecC, VecD}
FieldKinds == {"tensor", "union", "nontensor", "missing"}

\* the embedding of the i-th query of a batch: all different
QueryVec(i) == <<i, 1>>

SeqsUpTo(S, lo, hi) == UNION {[1..n -> S] : n \in lo..hi}

\* the index collections: up to MaxIndex documents, in list or columnar form
IndexLists ==
    {DocList(f, Dim, [i \in 1..Len(vs) |-> Doc(i, vs[i])]) :
        f \in FieldKinds, vs \in SeqsUpTo(IndexVecs, 0, MaxIndex)}
Indexes == IndexLists \cup {to_doc_vec(dl) : dl \in IndexLists}

\* the query batches of find_batched: n documents of which document `bad`
\* (none when bad = 0, all when bad > n) has an embedding of another
\* dimension; as a list of documents, and when all embeddings agree in
\* dimension also in columnar form and as a 2-D tensor
QueryList(f, n, bad) ==
    DocList(f, Dim, [i \in 1..n |->
        Doc(i, IF i = bad \/ bad > n THEN VecBad ELSE QueryVec(i))])
BatchQueries(f) ==
    {QueryList(f, n, bad) : n \in 1..MaxQuery, bad \in 0..(MaxQuery + 1)}
    \cup {to_doc_vec(QueryList(f, n, bad)) :
             n \in 1..MaxQuery, bad \in {0, MaxQuery + 1}}
    \cup {RawTensor(to_doc_vec(QueryList(f, n, bad)).column) :
             n \in 1..MaxQuery, bad \in {0, MaxQuery + 1}}

\* the queries of find: one document, or a 1-D tensor
SingleVecs == {QueryVec(1), QueryVec(2), VecBad}
SingleQueries(f) ==
    {BaseDoc(f, Dim, Doc(1, v)) : v \in SingleVecs}
    \cup {RawTensor(Tensor1(v)) : v \in SingleVecs}

Limits == 1..MaxLimit
Descendings == {None, Some(TRUE), Some(FALSE)}

\* The calls made on an index whose search field is a tensor:
\* find and single-pass find_batched with every metric name, direction and
\* limit; chunked find_batched with every batch_size and worker count, and
\* with shuffle on one worker.  find passes neither batch_size nor the pool
\* arguments on.
FindCalls(f) ==
    [api : {"find"}, query : SingleQueries(f), metric : MetricNames,
     limit : Limits, descending : Descendings, batch_size : {None},
     shuffle : {FALSE}, num_worker : {1}]
SinglePassCalls(f) ==
    [api : {"find_batched"}, query : BatchQueries(f), metric : MetricNames,
     limit : Limits, descending : Descendings, batch_size : {None},
     shuffle : {FALSE}, num_worker : {1}]
ChunkedCalls(f) ==
    [api : {"find_batched"}, query : BatchQueries(f),
     metric : {cosine_sim, euclidean_dist}, limit : {1, MaxLimit},
     descending : {None}, batch_size : {Some(b) : b \in 1..MaxBatch},
     shuffle : {FALSE}, num_worker : 1..MaxWorker]
    \cup
    [api : {"find_batched"}, query : BatchQueries(f),
     metric : {cosine_sim}, limit : {MaxLimit}, descending : {None},
     batch_size : {Some(b) : b \in 1..MaxBatch}, shuffle : {TRUE},
     num_worker : {1}]
    \cup
    [api : {"find_batched"}, query : BatchQueries(f),
     metric : {cosine_sim, sim_dist}, limit : {MaxLimit}, descending : {None},
     batch_size : {Some(0), Some(-1)}, shuffle : {FALSE}, num_worker : {1}]
\* On an index whose search field is declared otherwise, the same calls with
\* the default metric and direction.
BasicCalls(f) ==
    {c \in FindCalls(f) \cup SinglePassCalls(f) \cup ChunkedCalls(f) :
        /\ c.metric = cosine_sim
        /\ c.descending = None
        /\ c.limit = MaxLimit
        /\ c.num_worker = 1}
Calls(f) ==
    IF f = "tensor"
    THEN FindCalls(f) \cup SinglePassCalls(f) \cup ChunkedCalls(f)
    ELSE BasicCalls(f)

NoCall ==
    [api |-> "", query |-> RawTensor(NoTensor), metric |-> <<>>, limit |-> 0,
     descending |-> None, batch_size |-> None, shuffle |-> FALSE,
     num_worker |-> 0]
NoError == [type |-> "", by |-> "", chunk |-> 0]
NoResult == [documents |-> <<>>, scores |-> <<>>]
NoOutput == [ok |-> TRUE, err |-> "", top_indices |-> <<>>, top_scores |-> <<>>]

\* ------------------------------ docarray/typing/tensor/torch_tensor.py
\* A tensor value is a record [dtype, shape, data]: data is the row-major flat
\* content, one integer per element (a float element is written by its value,
\* 0 for 0.0 and 1 for 1.0).  A torch tensor names its dtype as torch does
\* ("float32"), a numpy array and a protobuf message by numpy's dtype.str
\* ("<f4").  The shape () is the shape of a zero-dimensional tensor.
MaxRank == 3        \* largest number of dimensions of a tensor
MaxExtent == 2      \* largest extent of one dimension
MaxObj == 2         \* largest number of tensor objects alive at once

\* number of elements of a tensor of the given shape
RECURSIVE Prod(_)
Prod(shape) == IF Len(shape) = 0 THEN 1 ELSE Head(shape) * Prod(Tail(shape))

TorchDtypes == {"float32", "float64", "int16"}

\* value_np.dtype.str of the numpy array of a torch tensor (line 206)
dtype_str(d) ==
    CASE d = "float32" -> "<f4"
      [] d = "float64" -> "<f8"
      [] d = "int16" -> "<i2"

\* the torch dtype torch.from_numpy gives an array of the numpy dtype (line 176)
torch_dtype(s) ==
    CASE s = "<f4" -> "float32"
      [] s = "<f8" -> "float64"
      [] s = "<i2" -> "int16"

\* bytes per element
itemsize(s) ==
    CASE s = "<f4" -> 4
      [] s = "<f8" -> 8
      [] s = "<i2" -> 2

Zeros(n) == [i \in 1..n |-> 0]

\* the little-endian bytes of one element: IEEE 754 for the floats 0.0 and
\* 1.0, two's complement for int16
item_bytes(s, v) ==
    CASE s = "<f4" -> IF v = 0 THEN Zeros(4) ELSE <<0, 0, 128, 63>>
      [] s = "<f8" -> IF v = 0 THEN Zeros(8) ELSE <<0, 0, 0, 0, 0, 0, 240, 63>>
      [] s = "<i2" -> <<(v % 65536) % 256, (v % 65536) \div 256>>

\* the element a group of itemsize bytes stands for
bytes_item(s, b) ==
    CASE s = "<i2" ->
           LET u == b[1] + 256 * b[2]
           IN  IF u >= 32768 THEN u - 65536 ELSE u
      [] OTHER -> IF b = Zeros(itemsize(s)) THEN 0 ELSE 1

\* ndarray.tobytes() (line 203)
tobytes(s, data) == Flatten([i \in 1..Len(data) |-> item_bytes(s, data[i])])

\* np.frombuffer(buffer, dtype) (line 187): a buffer whose size is not a
\* multiple of the element size is refused
frombuffer(buffer, s) ==
    IF Len(buffer) % itemsize(s) # 0
    THEN [ok |-> FALSE, data |-> <<>>]
    ELSE [ok |-> TRUE,
          data |-> [i \in 1..(Len(buffer) \div itemsize(s)) |->
                      bytes_item(s, SubSeq(buffer, (i - 1) * itemsize(s) + 1,
                                           i * itemsize(s)))]]

\* the dense part of an NdArrayProto; NoMsg is the message as constructed
NoMsg == [buffer |-> <<>>, shape |-> <<>>, dtype |-> ""]
NoValue == [dtype |-> "", shape |-> <<>>, data |-> <<>>]

\* TorchTensor.to_protobuf (lines 194-208) of the tensor value t
to_protobuf(t) ==
    [buffer |-> tobytes(dtype_str(t.dtype), t.data),
     shape |-> t.shape,
     dtype |-> dtype_str(t.dtype)]

\* TorchTensor.from_ndarray (lines 170-176) of the numpy array value x
from_ndarray(x) ==
    [dtype |-> torch_dtype(x.dtype), shape |-> x.shape, data |-> x.data]

\* np.zeros(shape): an array of float64 zeros
np_zeros(shape) == [dtype |-> "<f8", shape |-> shape, data |-> Zeros(Prod(shape))]

\* from_protobuf refusing every message without a buffer
from_protobuf_no_default(pb_msg) ==
    IF Len(pb_msg.buffer) > 0
    THEN LET x == frombuffer(pb_msg.buffer, pb_msg.dtype)
         IN  IF x.ok /\ Len(x.data) = Prod(pb_msg.shape)
             THEN [ok |-> TRUE, err |-> "",
                   value |-> from_ndarray([dtype |-> pb_msg.dtype,
                                           shape |-> pb_msg.shape,
                                           data |-> x.data])]
             ELSE [ok |-> FALSE, err |-> "ValueError", value |-> NoValue]
    ELSE [ok |-> FALSE, err |-> "ValueError", value |-> NoValue]

\* TorchTensor.from_protobuf (lines 179-192): [ok, err, value]
from_protobuf(pb_msg) ==
    IF Len(pb_msg.buffer) > 0
    THEN LET x == frombuffer(pb_msg.buffer, pb_msg.dtype)
         IN  IF x.ok /\ Len(x.data) = Prod(pb_msg.shape)
             THEN [ok |-> TRUE, err |-> "",
                   value |-> from_ndarray([dtype |-> pb_msg.dtype,
                                           shape |-> pb_msg.shape,
                                           data |-> x.data])]
             ELSE [ok |-> FALSE, err |-> "ValueError", value |-> NoValue]
    ELSE IF Len(pb_msg.shape) > 0
    THEN [ok |-> TRUE, err |-> "", value |-> from_ndarray(np_zeros(pb_msg.shape))]
    ELSE [ok |-> FALSE, err |-> "ValueError", value |-> NoValue]

\* One dimension of a declared shape: a fixed extent or a named wildcard.
Fixed(n) == [name |-> "", n |-> n]
Wild(x) == [name |-> x, n |-> 0]
IsWild(d) == d.name # ""

\* agreement that leaves every wildcard free
Agrees_unbound(tshape, shape) ==
    /\ Len(tshape) = Len(shape)
    /\ \A i \in 1..Len(shape) : ~IsWild(shape[i]) => tshape[i] = shape[i].n

\* the value's extents agree with the declared dimensions, position by
\* position: a fixed extent is equal, a wildcard name stands for one extent
\* of the value
Agrees(tshape, shape) ==
    /\ Len(tshape) = Len(shape)
    /\ \A i \in 1..Len(shape) : ~IsWild(shape[i]) => tshape[i] = shape[i].n
    /\ \A i, j \in 1..Len(shape) :
          IsWild(shape[i]) /\ shape[i].name = shape[j].name
              => tshape[i] = tshape[j]

\* The shape check of a parametrized tensor type, as the class documents it
\* (lines 59-84): a value of the declared shape is taken as it is (lines 68,
\* 69, 76); for a declared shape of fixed extents only, a value of another
\* shape is reshaped to it (line 75: (224, 224, 3) becomes (3, 224, 224)) and
\* fails when it cannot be (line 82: (224, 224)); with a wildcard, the value
\* must agree position by position (line 83: (3, 128, 64) fails for
\* [3, 'x', 'x']).  The result is [ok, reshaped, shape].
validate_shape(t, shape) ==
    IF \E i \in 1..Len(shape) : IsWild(shape[i])
    THEN [ok |-> Agrees(t.shape, shape), reshaped |-> FALSE, shape |-> t.shape]
    ELSE LET target == [i \in 1..Len(shape) |-> shape[i].n]
         IN  IF t.shape = target
             THEN [ok |-> TRUE, reshaped |-> FALSE, shape |-> target]
             ELSE IF Prod(t.shape) = Prod(target)
             THEN [ok |-> TRUE, reshaped |-> TRUE, shape |-> target]
             ELSE [ok |-> FALSE, reshaped |-> FALSE, shape |-> t.shape]

\* A tensor object is a record [cls, mem, shape, dtype]; mem is the position
\* of its memory block in the storage.  The content of object o:
Value(h, st, o) ==
    [dtype |-> h[o].dtype, shape |-> h[o].shape, data |-> st[h[o].mem]]

\* An argument of validate: the object obj of the heap, or (obj = 0) a python
\* value that is no tensor: the list [0.0, 1.0] or a str.
ObjArg(o) == [obj |-> o, py |-> ""]
PyArg(k) == [obj |-> 0, py |-> k]

\* TorchTensor._docarray_from_native (lines 157-167): the class of the object
\* itself is replaced
docarray_from_native(h, o) == [h EXCEPT ![o].cls = "TorchTensor"]

\* torch.tensor(value) (line 110): a new tensor that owns a copy of the data
\* of a numpy array or of a list of numbers; a str is not convertible
torch_tensor(h, st, arg) ==
    IF arg.obj # 0
    THEN [ok |-> TRUE,
          heap |-> Append(h, [cls |-> "torch.Tensor", mem |-> Len(st) + 1,
                              shape |-> h[arg.obj].shape,
                              dtype |-> torch_dtype(h[arg.obj].dtype)]),
          storage |-> Append(st, st[h[arg.obj].mem])]
    ELSE IF arg.py = "list"
    THEN [ok |-> TRUE,
          heap |-> Append(h, [cls |-> "torch.Tensor", mem |-> Len(st) + 1,
                              shape |-> <<2>>, dtype |-> "float32"]),
          storage |-> Append(st, <<0, 1>>)]
    ELSE [ok |-> FALSE, heap |-> h, storage |-> st]

\* TorchTensor.validate (lines 97-114): [ok, err, heap, storage, out], out the
\* object returned
validate(h, st, arg) ==
    IF arg.obj # 0 /\ h[arg.obj].cls = "TorchTensor"
    THEN [ok |-> TRUE, err |-> "", heap |-> h, storage |-> st, out |-> arg.obj]
    ELSE IF arg.obj # 0 /\ h[arg.obj].cls = "torch.Tensor"
    THEN [ok |-> TRUE, err |-> "", heap |-> docarray_from_native(h, arg.obj),
          storage |-> st, out |-> arg.obj]
    ELSE LET a == torch_tensor(h, st, arg)
         IN  IF a.ok
             THEN [ok |-> TRUE, err |-> "",
                   heap |-> docarray_from_native(a.heap, Len(a.heap)),
                   storage |-> a.storage, out |-> Len(a.heap)]
             ELSE [ok |-> FALSE, err |-> "ValueError", heap |-> h,
                   storage |-> st, out |-> 0]

\* validate of a parametrized type, declared TorchTensor[shape]: validate, then
\* the shape check (video_torch_tensor.py lines 65-66); a reshaped value is a
\* new tensor object on the memory of the validated one
validate_parametrized(h, st, shape, arg) ==
    LET r == validate(h, st, arg)
    IN  IF ~r.ok
        THEN r
        ELSE LET v == validate_shape(Value(r.heap, r.storage, r.out), shape)
             IN  IF ~v.ok
                 THEN [ok |-> FALSE, err |-> "ShapeMismatch", heap |-> r.heap,
                       storage |-> r.storage, out |-> 0]
                 ELSE IF ~v.reshaped
                 THEN r
                 ELSE [ok |-> TRUE, err |-> "",
                       heap |-> Append(r.heap,
                                  [cls |-> "TorchTensor",
                                   mem |-> r.heap[r.out].mem,
                                   shape |-> v.shape,
                                   dtype |-> r.heap[r.out].dtype]),
                       storage |-> r.storage, out |-> Len(r.heap) + 1]

\* unwrap copying the data into a memory block of its own
unwrap_deepcopy(h, st, o) ==
    [heap |-> Append(h, [h[o] EXCEPT !.cls = "torch.Tensor",
                                     !.mem = Len(st) + 1]),
     storage |-> Append(st, st[h[o].mem]),
     out |-> Len(h) + 1]

\* TorchTensor.unwrap (lines 128-154): copy(self) is a new tensor object on
\* the memory of self (lines 150-152), and the class of that new object is
\* set to torch.Tensor (line 153); [heap, storage, out], out the object
\* returned
unwrap(h, st, o) ==
    [heap |-> Append(h, [h[o] EXCEPT !.cls = "torch.Tensor"]),
     storage |-> st,
     out |-> Len(h) + 1]

\* ----------------------------------------------------------- tensor inputs
Extents == 0..MaxExtent
Shapes == SeqsUpTo(Extents, 0, MaxRank)

\* 1, 2, ..., n: every element differs from its neighbours
Ramp(n) == [i \in 1..n |-> i]
\* 0, 1, 0, ...: float elements
Alt(n) == [i \in 1..n |-> (i + 1) % 2]

\* the tensor values a caller starts with
TensorValues ==
    {[dtype |-> "int16", shape |-> sh, data |-> Ramp(Prod(sh))] : sh \in Shapes}
    \cup {[dtype |-> "float32", shape |-> sh, data |-> Alt(Prod(sh))] : sh \in Shapes}
    \cup {[dtype |-> "float64", shape |-> sh, data |-> Zeros(Prod(sh))] : sh \in Shapes}

Classes == {"TorchTensor", "torch.Tensor", "numpy.ndarray"}

\* the object of class cls holding the value v in the memory block mem
Object(cls, mem, v) ==
    [cls |-> cls, mem |-> mem, shape |-> v.shape,
     dtype |-> IF cls = "numpy.ndarray" THEN dtype_str(v.dtype) ELSE v.dtype]

\* the declared shapes of the class documentation (lines 61-62), scaled: the
\* extent 3 is written MaxExtent and the extent 224 is written MaxExtent - 1
ImageShape == <<Fixed(MaxExtent), Fixed(MaxExtent - 1), Fixed(MaxExtent - 1)>>
SquareCrop == <<Fixed(MaxExtent), Wild("x"), Wild("x")>>
DeclaredShapes == {None, Some(ImageShape), Some(SquareCrop)}

\* messages that no to_protobuf of this model wrote: an empty buffer with a
\* shape, and a buffer that does not fill its shape
ForeignMessages ==
    {[buffer |-> <<>>, shape |-> sh, dtype |-> d] :
        sh \in Shapes, d \in {"<f4", "<i2"}}
    \cup {[buffer |-> Zeros(4), shape |-> <<MaxExtent + 1>>, dtype |-> d] :
        d \in {"<f8", "<i2"}}

NoRet ==
    [op |-> "", ok |-> TRUE, err |-> "", arg |-> ObjArg(0), out |-> 0,
     decl |-> None]

\* --------------------------------- docarray/typing/tensor/embedding.py
\* The item of Cls[item] is a record [kind, n, dims]: a bare integer n (kind
\* "int"), or a tuple of extents, fixed or wildcard (kind "tuple").
IntItem(n) == [kind |-> "int", n |-> n, dims |-> <<>>]
TupleItem(dims) == [kind |-> "tuple", n |-> 0, dims |-> dims]

\* the number of dimensions the item asks for
ItemRank(item) == IF item.kind = "int" THEN 1 ELSE Len(item.dims)

\* AbstractTensor.__validate_getitem__(item), the super() of line 16: the
\* shape tuple of the item, a bare integer being a shape of one extent
abstract_validate_getitem(item) ==
    IF item.kind = "int" THEN <<Fixed(item.n)>> ELSE item.dims

EmbeddingClasses == {"NdArrayEmbedding", "TorchEmbedding"}
TensorClasses == {"NdArray", "TorchTensor"}

\* alternative_type of the class (lines 12, 26, 38)
alternative_type(cls) ==
    IF cls = "NdArrayEmbedding" THEN "NdArray"
    ELSE IF cls = "TorchEmbedding" THEN "TorchTensor"
    ELSE ""

\* EmbeddingMixin.__validate_getitem__ letting every shape through
embedding_validate_getitem_any_rank(cls, item) ==
    [ok |-> TRUE, err |-> "", hint |-> "",
     shape |-> abstract_validate_getitem(item)]

\* EmbeddingMixin.__validate_getitem__ (lines 14-22): [ok, err, hint, shape],
\* hint the type the error message tells the caller to consider
embedding_validate_getitem(cls, item) ==
    LET shape == abstract_validate_getitem(item)
    IN  IF Len(shape) > 1
        THEN [ok |-> FALSE, err |-> "ValueError",
              hint |-> alternative_type(cls), shape |-> <<>>]
        ELSE [ok |-> TRUE, err |-> "", hint |-> "", shape |-> shape]

\* cls.__validate_getitem__(item): the method of the mixin for the embedding
\* classes (lines 25, 37), the one of AbstractTensor for the tensor classes
validate_getitem(cls, item) ==
    IF cls \in EmbeddingClasses
    THEN embedding_validate_getitem(cls, item)
    ELSE [ok |-> TRUE, err |-> "", hint |-> "",
          shape |-> abstract_validate_getitem(item)]

\* the items a schema is declared with: an integer, or a tuple of up to
\* MaxRank extents, each a positive integer or a wildcard name
DeclaredExtents == {Fixed(n) : n \in 1..MaxExtent} \cup {Wild("x")}
Items ==
    {IntItem(n) : n \in 1..MaxExtent}
    \cup {TupleItem(ds) : ds \in SeqsUpTo(DeclaredExtents, 0, MaxRank)}

NoParam ==
    [cls |-> "", item |-> TupleItem(<<>>), ok |-> TRUE, err |-> "",
     hint |-> "", shape |-> <<>>]

\* ------------------------------------------------ stacking and the codec
\* A list-form collection is a record [backend, decl, docs]: backend "torch"
\* or "numpy", decl the declared shape of the tensor field, docs the
\* documents [id, tensor].  A columnar collection is a record
\* [backend, decl, ids, column]: column is the one tensor of shape
\* [N, *row shape] that holds the field of every document.
MaxDocs == 3        \* largest list-form collection that is stacked

NoList == [backend |-> "", decl |-> <<>>, docs |-> <<>>]
NoColumnar == [backend |-> "", decl |-> <<>>, ids |-> <<>>, column |-> NoValue]

\* the tensor shape has the rank of the declared shape and its fixed extents
FixedAgree(tshape, decl) ==
    /\ Len(tshape) = Len(decl)
    /\ \A i \in 1..Len(decl) : ~IsWild(decl[i]) => tshape[i] = decl[i].n

\* the dtype of an empty column
default_dtype(backend) == IF backend = "torch" THEN "float32" ELSE "float64"

\* the row shape of an empty column: the declared extents, a wildcard free
EmptyRow(decl) == [i \in 1..Len(decl) |-> decl[i].n]

\* the first document, 1-based, whose tensor has not the rank of the
\* declared shape or another extent where the declared shape fixes one; 0 if
\* there is none
RECURSIVE FirstMismatch(_, _, _)
FirstMismatch(decl, docs, k) ==
    IF k > Len(docs)
    THEN 0
    ELSE IF FixedAgree(docs[k].tensor.shape, decl)
    THEN FirstMismatch(decl, docs, k + 1)
    ELSE k

\* the backend's stack of the tensors ts of one row shape into [N, *shape]
stack(backend, decl, ts) ==
    IF Len(ts) = 0
    THEN [dtype |-> default_dtype(backend), shape |-> <<0>> \o EmptyRow(decl),
          data |-> <<>>]
    ELSE [dtype |-> ts[1].dtype, shape |-> <<Len(ts)>> \o ts[1].shape,
          data |-> Flatten([i \in 1..Len(ts) |-> ts[i].data])]

\* to_columnar that keeps the documents before the mismatch
to_columnar_partial(l) ==
    LET k == FirstMismatch(l.decl, l.docs, 1)
        kept == IF k = 0 THEN l.docs ELSE SubSeq(l.docs, 1, k - 1)
    IN  [ok |-> TRUE, err |-> "", at |-> 0,
         value |-> [backend |-> l.backend, decl |-> l.decl,
                    ids |-> [i \in 1..Len(kept) |-> kept[i].id],
                    column |-> stack(l.backend, l.decl,
                                     [i \in 1..Len(kept) |-> kept[i].tensor])],
         source |-> [l EXCEPT !.docs = SubSeq(l.docs, Len(kept) + 1, Len(l.docs))]]

\* to_columnar(list_collection): [ok, err, at, value, source]: the columnar
\* collection, or the shape error and the offending document at; source is the
\* list collection as the call leaves it
to_columnar(l) ==
    LET k == FirstMismatch(l.decl, l.docs, 1)
    IN  IF k # 0
        THEN [ok |-> FALSE, err |-> "ShapeMismatch", at |-> k,
              value |-> NoColumnar,
              source |-> l]
        ELSE [ok |-> TRUE, err |-> "", at |-> 0,
              value |-> [backend |-> l.backend, decl |-> l.decl,
                         ids |-> [i \in 1..Len(l.docs) |-> l.docs[i].id],
                         column |-> stack(l.backend, l.decl,
                                          [i \in 1..Len(l.docs) |-> l.docs[i].tensor])],
              source |-> l]

\* number of elements of one row of a column
RowSize(column) == Prod(Tail(column.shape))

\* row i (1-based) of a column, as a tensor of its own
row_of(column, i) ==
    [dtype |-> column.dtype, shape |-> Tail(column.shape),
     data |-> SubSeq(column.data, (i - 1) * RowSize(column) + 1,
                     i * RowSize(column))]

\* to_list with the rows taken from the last to the first
to_list_reversed(c) ==
    [backend |-> c.backend, decl |-> c.decl,
     docs |-> [i \in 1..Len(c.ids) |->
                 [id |-> c.ids[i],
                  tensor |-> row_of(c.column, Len(c.ids) + 1 - i)]]]

\* to_list(columnar_collection): one document per row, its tensor a copy of
\* the row
to_list(c) ==
    [backend |-> c.backend, decl |-> c.decl,
     docs |-> [i \in 1..Len(c.ids) |->
                 [id |-> c.ids[i], tensor |-> row_of(c.column, i)]]]

\* a write through the view that lands one row further
view_write_next_row(c, i, p, v) ==
    [c EXCEPT !.column.data[(i % Len(c.ids)) * RowSize(c.column) + p] = v]

\* view_at(c, i).tensor[p] = v, i and p 1-based: the view aliases row i of
\* the column, the write lands in the column
view_write(c, i, p, v) ==
    [c EXCEPT !.column.data[(i - 1) * RowSize(c.column) + p] = v]

\* the tensor sub-message of the numpy backend: dtype string, shape, buffer
ndarray_to_protobuf(t) ==
    [buffer |-> tobytes(dtype_str(t.dtype), t.data),
     shape |-> t.shape,
     dtype |-> dtype_str(t.dtype)]

\* decoding of the tensor sub-message of the numpy backend; a message
\* without buffer and with a shape is a tensor of zeros
ndarray_from_protobuf(m) ==
    IF Len(m.buffer) > 0
    THEN LET x == frombuffer(m.buffer, m.dtype)
         IN  IF x.ok /\ Len(x.data) = Prod(m.shape)
             THEN [ok |-> TRUE, err |-> "",
                   value |-> [dtype |-> torch_dtype(m.dtype), shape |-> m.shape,
                              data |-> x.data]]
             ELSE [ok |-> FALSE, err |-> "ValueError", value |-> NoValue]
    ELSE IF Len(m.shape) > 0
    THEN [ok |-> TRUE, err |-> "",
          value |-> [dtype |-> "float64", shape |-> m.shape,
                     data |-> Zeros(Prod(m.shape))]]
    ELSE [ok |-> FALSE, err |-> "ValueError", value |-> NoValue]

tensor_to_protobuf(backend, t) ==
    IF backend = "torch" THEN to_protobuf(t) ELSE ndarray_to_protobuf(t)
tensor_from_protobuf(backend, m) ==
    IF backend = "torch" THEN from_protobuf(m) ELSE ndarray_from_protobuf(m)

\* the message of a list-form collection: the document count and one
\* sub-message per document
encode_list(l) ==
    [format |-> "list_collection", backend |-> l.backend, decl |-> l.decl,
     n |-> Len(l.docs), ids |-> [i \in 1..Len(l.docs) |-> l.docs[i].id],
     tensors |-> [i \in 1..Len(l.docs) |->
                    tensor_to_protobuf(l.backend, l.docs[i].tensor)]]

\* the message of a columnar collection: the document count and one
\* sub-message for the stacked tensor
encode_columnar(c) ==
    [format |-> "columnar_collection", backend |-> c.backend, decl |-> c.decl,
     n |-> Len(c.ids), ids |-> c.ids,
     tensors |-> <<tensor_to_protobuf(c.backend, c.column)>>]

\* decoding of the message of a list-form collection
decode_list(m) ==
    LET parts == [i \in 1..m.n |-> tensor_from_protobuf(m.backend, m.tensors[i])]
    IN  IF \E i \in 1..m.n : ~parts[i].ok
        THEN [ok |-> FALSE, err |-> "ValueError", form |-> "", list |-> NoList,
              columnar |-> NoColumnar]
        ELSE [ok |-> TRUE, err |-> "", form |-> "list",
              list |-> [backend |-> m.backend, decl |-> m.decl,
                        docs |-> [i \in 1..m.n |->
                                    [id |-> m.ids[i], tensor |-> parts[i].value]]],
              columnar |-> NoColumnar]

\* decoding of the message of a columnar collection
decode_columnar(m) ==
    LET r == tensor_from_protobuf(m.backend, m.tensors[1])
    IN  IF r.ok
        THEN [ok |-> TRUE, err |-> "", form |-> "columnar", list |-> NoList,
              columnar |-> [backend |-> m.backend, decl |-> m.decl,
                            ids |-> m.ids, column |-> r.value]]
        ELSE [ok |-> FALSE, err |-> r.err, form |-> "", list |-> NoList,
              columnar |-> NoColumnar]

\* decode that hands every collection back in list form
decode_degraded(m) ==
    IF m.format = "columnar_collection"
    THEN LET r == decode_columnar(m)
         IN  IF r.ok
             THEN [r EXCEPT !.form = "list", !.list = to_list(r.columnar),
                            !.columnar = NoColumnar]
             ELSE r
    ELSE decode_list(m)

\* decode(message): the decode path is selected by the format discriminator;
\* [ok, err, form, list, columnar]
decode(m) ==
    IF m.format = "columnar_collection"
    THEN decode_columnar(m)
    ELSE decode_list(m)

\* ------------------------------------------------------ collection inputs
\* the declared shapes of the tensor field: a vector of a fixed length, and
\* rows of a fixed length under a free leading extent
VectorField == <<Fixed(MaxExtent)>>
FreeRowsField == <<Wild("n"), Fixed(MaxExtent)>>

\* the tensor of document i: of the declared shape sh, or, for a document
\* that breaks it, with a fixed extent one less; the elements differ from
\* document to document
DocTensor(dtype, sh, i) ==
    [dtype |-> dtype, shape |-> sh,
     data |-> IF dtype = "int16"
              THEN [p \in 1..Prod(sh) |-> 8 * i + p]
              ELSE [p \in 1..Prod(sh) |-> (i + p) % 2]]

BreakLast(sh) == [sh EXCEPT ![Len(sh)] = @ - 1]

\* the list-form collections: n documents of one dtype and one shape, the
\* document bad (if not 0) with a mismatched fixed extent
ListOf(backend, decl, dtype, sh, n, bad) ==
    [backend |-> backend, decl |-> decl,
     docs |-> [i \in 1..n |->
                 [id |-> i,
                  tensor |-> DocTensor(dtype, IF i = bad THEN BreakLast(sh) ELSE sh, i)]]]

DocLists ==
    {ListOf(b, VectorField, d, <<MaxExtent>>, n, bad) :
        b \in {"torch", "numpy"}, d \in {"int16", "float32"},
        n \in 0..MaxDocs, bad \in 0..MaxDocs}
    \cup {ListOf(b, FreeRowsField, d, <<e, MaxExtent>>, n, bad) :
        b \in {"torch", "numpy"}, d \in {"int16", "float32"},
        n \in 0..MaxDocs, bad \in 0..MaxDocs, e \in 0..MaxExtent}

NoWire ==
    [format |-> "", backend |-> "", decl |-> <<>>, n |-> 0, ids |-> <<>>,
     tensors |-> <<>>]
NoOutcome ==
    [op |-> "", ok |-> TRUE, err |-> "", at |-> 0, form |-> "",
     list |-> NoList, columnar |-> NoColumnar]

\* ------------------------------------------------------------------- state
VARIABLES
    index,             \* the index collection
    call,              \* the arguments of the call in progress
    pc,                \* where the call is
    query,             \* the query as find_batched holds it
    descending,        \* the resolved sort direction
    index_embeddings,  \* the stacked embeddings of the index
    batches,           \* the batches handed to the pool, in submission order
    batch_state,       \* per batch: "queued" | "running" | "done"
    batch_out,         \* per batch: what get_result returned or raised
    consumed,          \* number of batches the caller has read from the pool
    retrieved_docs,    \* find_batched's accumulators
    docs_scores,
    result,            \* the value returned to the caller
    error,             \* the exception raised to the caller
    log,               \* the functions entered so far, in order
    completed,         \* the batches in the order their workers finished
    heap,              \* the tensor objects: class, memory, shape, dtype
    storage,           \* the memory blocks the tensor objects point into
    msg,               \* the NdArrayProto message last written
    ret,               \* what the last tensor operation returned or raised
    doclist,           \* a list-form collection
    docvec,            \* the columnar collection made from it, if any
    wire,              \* the encoded collection, if any
    outcome,           \* what the last collection operation returned or raised
    param              \* what the last parametrization of a tensor type gave

search_vars == <<index, call, pc, query, descending, index_embeddings, batches,
                 batch_state, batch_out, consumed, retrieved_docs, docs_scores,
                 result, error, log, completed>>
tensor_vars == <<heap, storage, msg, ret>>
stack_vars == <<doclist, docvec, wire, outcome>>
type_vars == <<param>>
vars == <<search_vars, tensor_vars, stack_vars, type_vars>>

pool_vars == <<batches, batch_state, batch_out, consumed, retrieved_docs,
               docs_scores, completed>>

\* no tensor operation was called
TensorIdle ==
    /\ heap = <<>>
    /\ storage = <<>>
    /\ msg = NoMsg
    /\ ret = NoRet

\* no collection operation was called
StackIdle ==
    /\ doclist = NoList
    /\ docvec = None
    /\ wire = NoWire
    /\ outcome = NoOutcome

\* no tensor type was parametrized
TypeIdle == param = NoParam

\* no search call in progress
SearchIdle ==
    /\ call = NoCall
    /\ pc = "idle"
    /\ query = RawTensor(NoTensor)
    /\ descending = FALSE
    /\ index_embeddings = NoTensor
    /\ batches = <<>>
    /\ batch_state = <<>>
    /\ batch_out = <<>>
    /\ consumed = 0
    /\ retrieved_docs = <<>>
    /\ docs_scores = <<>>
    /\ result = NoResult
    /\ error = NoError
    /\ log = <<>>
    /\ completed = <<>>

Init ==
    /\ index \in Indexes
    /\ SearchIdle
    /\ TensorIdle
    /\ StackIdle
    /\ TypeIdle

Raise(type, by, chunk) ==
    /\ pc' = "raised"
    /\ error' = [type |-> type, by |-> by, chunk |-> chunk]

\* a caller invokes find or find_batched
Call ==
    /\ UNCHANGED <<tensor_vars, stack_vars, type_vars>>
    /\ pc = "idle"
    /\ \E c \in Calls(index.field) :
        /\ call' = c
        /\ query' = c.query
        /\ pc' = c.api
    /\ UNCHANGED <<index, descending, index_embeddings, pool_vars, result,
                   error, log>>

\* find, line 109: query = _extract_embedding_single(query, search_field)
find_extract ==
    /\ UNCHANGED <<tensor_vars, stack_vars, type_vars>>
    /\ pc = "find"
    /\ log' = Append(log, "_extract_embedding_single")
    /\ LET r == extract_embedding_single(query)
       IN  IF r.ok
           THEN /\ query' = RawTensor(r.emb)
                /\ pc' = "find_batched"
                /\ UNCHANGED error
           ELSE /\ Raise(r.err, "_extract_embedding_single", 0)
                /\ UNCHANGED query
    /\ UNCHANGED <<index, call, descending, index_embeddings, pool_vars, result>>

\* find_batched, lines 232-236: the sort direction and the field type
fb_resolve ==
    /\ UNCHANGED <<tensor_vars, stack_vars, type_vars>>
    /\ pc = "find_batched"
    /\ log' = Append(log, "_da_attr_type")
    /\ descending' = default_descending(call.descending, call.metric)
    /\ LET t == da_attr_type(index)
       IN  IF t.ok
           THEN pc' = "prepare" /\ UNCHANGED error
           ELSE Raise(t.err, "_da_attr_type", 0)
    /\ UNCHANGED <<index, call, query, index_embeddings, pool_vars, result>>

\* fb_prepare testing batch_size for truth: 0 is taken for None
fb_prepare_falsy ==
    /\ UNCHANGED <<tensor_vars, stack_vars, type_vars>>
    /\ pc = "prepare"
    /\ log' = Append(log, "_extract_embeddings(index)")
    /\ LET ie == extract_embeddings(index)
       IN  IF ~ie.ok
           THEN Raise(ie.err, "_extract_embeddings", 0)
                /\ UNCHANGED index_embeddings
           ELSE /\ index_embeddings' = ie.emb
                /\ IF call.metric \notin BackendMetrics
                   THEN Raise("AttributeError", "getattr", 0)
                   ELSE IF IsNone(call.batch_size) \/ Get(call.batch_size) = 0
                   THEN pc' = "single_pass" /\ UNCHANGED error
                   ELSE IF Get(call.batch_size) < 0
                   THEN Raise("ValueError", "find_batched", 0)
                   ELSE pc' = "scatter" /\ UNCHANGED error
    /\ UNCHANGED <<index, call, query, descending, pool_vars, result>>

\* find_batched, lines 238-258: the index embeddings, the metric function
\* and the check of batch_size
fb_prepare ==
    /\ UNCHANGED <<tensor_vars, stack_vars, type_vars>>
    /\ pc = "prepare"
    /\ log' = Append(log, "_extract_embeddings(index)")
    /\ LET ie == extract_embeddings(index)
       IN  IF ~ie.ok
           THEN Raise(ie.err, "_extract_embeddings", 0)
                /\ UNCHANGED index_embeddings
           ELSE /\ index_embeddings' = ie.emb
                /\ IF call.metric \notin BackendMetrics
                   THEN Raise("AttributeError", "getattr", 0)
                   ELSE IF IsNone(call.batch_size)
                   THEN pc' = "single_pass" /\ UNCHANGED error
                   ELSE IF Get(call.batch_size) <= 0
                   THEN Raise("ValueError", "find_batched", 0)
                   ELSE pc' = "scatter" /\ UNCHANGED error
    /\ UNCHANGED <<index, call, query, descending, pool_vars, result>>

\* where find_batched hands its result: to find (line 110) or to the caller
AfterBatched == IF call.api = "find" THEN "find_return" ELSE "returned"

\* find_batched, lines 260-272: batch_size is None, one pass over all queries
fb_single_pass ==
    /\ UNCHANGED <<tensor_vars, stack_vars, type_vars>>
    /\ pc = "single_pass"
    /\ log' = log \o <<"_extract_embeddings(query)", "get_result">>
    /\ LET r == single_pass(index, index_embeddings, query, call.metric,
                            call.limit, descending)
       IN  IF r.ok
           THEN /\ result' = [documents |-> r.documents, scores |-> r.scores]
                /\ pc' = AfterBatched
                /\ UNCHANGED error
           ELSE /\ Raise(r.err, "get_result", 0)
                /\ UNCHANGED result
    /\ UNCHANGED <<index, call, query, descending, index_embeddings, pool_vars>>

\* find_batched, lines 274-290: the query becomes a document list and its
\* batches are submitted to the pool
fb_scatter ==
    /\ UNCHANGED <<tensor_vars, stack_vars, type_vars>>
    /\ pc = "scatter"
    /\ LET d == wrap_query(query)
           n == len(d)
       IN  /\ query' = d
           /\ \E perm \in (IF call.shuffle THEN Perms(n) ELSE {Identity(n)}) :
                 batches' = Batches(d, Get(call.batch_size), perm)
           /\ batch_state' = [k \in 1..NumBatches(n, Get(call.batch_size)) |-> "queued"]
           /\ batch_out' = [k \in 1..NumBatches(n, Get(call.batch_size)) |-> NoOutput]
    /\ pc' = "gather"
    /\ log' = Append(log, "_map_docs_batched_multiarg")
    /\ UNCHANGED <<index, call, descending, index_embeddings, consumed,
                   retrieved_docs, docs_scores, result, error, completed>>

Running == {k \in 1..Len(batch_state) : batch_state[k] = "running"}
Queued == {k \in 1..Len(batch_state) : batch_state[k] = "queued"}

\* a free worker of the pool takes the next queued batch
worker_start ==
    /\ UNCHANGED <<tensor_vars, stack_vars, type_vars>>
    /\ pc = "gather"
    /\ Queued # {}
    /\ Cardinality(Running) < call.num_worker
    /\ LET k == CHOOSE x \in Queued : \A y \in Queued : x <= y
       IN  batch_state' = [batch_state EXCEPT ![k] = "running"]
    /\ UNCHANGED <<index, call, pc, query, descending, index_embeddings,
                   batches, batch_out, consumed, retrieved_docs, docs_scores,
                   result, error, log, completed>>

\* a worker finishes its batch: get_result returned or raised
worker_finish ==
    /\ UNCHANGED <<tensor_vars, stack_vars, type_vars>>
    /\ pc = "gather"
    /\ \E k \in Running :
        /\ batch_out' = [batch_out EXCEPT ![k] =
               run_batch(batches[k], query.dim, index_embeddings, call.metric,
                         call.limit, descending)]
        /\ batch_state' = [batch_state EXCEPT ![k] = "done"]
        /\ completed' = Append(completed, k)
    /\ log' = Append(log, "get_result")
    /\ UNCHANGED <<index, call, pc, query, descending, index_embeddings,
                   batches, consumed, retrieved_docs, docs_scores, result, error>>

\* fb_gather with the outputs put in front of the accumulators
fb_gather_prepend ==
    /\ UNCHANGED <<tensor_vars, stack_vars, type_vars>>
    /\ pc = "gather"
    /\ consumed < Len(batches)
    /\ batch_state[consumed + 1] = "done"
    /\ LET out == batch_out[consumed + 1]
       IN  IF out.ok
           THEN /\ retrieved_docs' =
                     batched_docs(index, out.top_indices) \o retrieved_docs
                /\ docs_scores' = out.top_scores \o docs_scores
                /\ consumed' = consumed + 1
                /\ UNCHANGED <<pc, error>>
           ELSE /\ Raise(out.err, "get_result", consumed + 1)
                /\ UNCHANGED <<retrieved_docs, docs_scores, consumed>>
    /\ UNCHANGED <<index, call, query, descending, index_embeddings, batches,
                   batch_state, batch_out, result, log, completed>>

\* fb_gather passing over a batch that raised
fb_gather_skip ==
    /\ UNCHANGED <<tensor_vars, stack_vars, type_vars>>
    /\ pc = "gather"
    /\ consumed < Len(batches)
    /\ batch_state[consumed + 1] = "done"
    /\ LET out == batch_out[consumed + 1]
       IN  /\ retrieved_docs' =
                IF out.ok
                THEN retrieved_docs \o batched_docs(index, out.top_indices)
                ELSE retrieved_docs
           /\ docs_scores' =
                IF out.ok THEN docs_scores \o out.top_scores ELSE docs_scores
           /\ consumed' = consumed + 1
           /\ UNCHANGED <<pc, error>>
    /\ UNCHANGED <<index, call, query, descending, index_embeddings, batches,
                   batch_state, batch_out, result, log, completed>>

\* fb_gather taking the documents in rank order out of the index and putting
\* them back: the index ends up in another order
fb_gather_reorder ==
    /\ UNCHANGED <<tensor_vars, stack_vars, type_vars>>
    /\ pc = "gather"
    /\ consumed < Len(batches)
    /\ batch_state[consumed + 1] = "done"
    /\ LET out == batch_out[consumed + 1]
       IN  IF out.ok
           THEN /\ retrieved_docs' =
                     retrieved_docs \o batched_docs(index, out.top_indices)
                /\ docs_scores' = docs_scores \o out.top_scores
                /\ consumed' = consumed + 1
                /\ UNCHANGED <<pc, error>>
           ELSE /\ Raise(out.err, "get_result", consumed + 1)
                /\ UNCHANGED <<retrieved_docs, docs_scores, consumed>>
    /\ index' = [index EXCEPT
                    !.docs = [i \in 1..Len(@) |-> @[Len(@) + 1 - i]],
                    !.ids = [i \in 1..Len(@) |-> @[Len(@) + 1 - i]]]
    /\ UNCHANGED <<call, query, descending, index_embeddings, batches,
                   batch_state, batch_out, result, log, completed>>

\* find_batched, lines 293-299: the caller reads the output of the next
\* batch, in submission order, and appends its documents and scores; a batch
\* that raised makes the read raise
fb_gather ==
    /\ UNCHANGED <<tensor_vars, stack_vars, type_vars>>
    /\ pc = "gather"
    /\ consumed < Len(batches)
    /\ batch_state[consumed + 1] = "done"
    /\ LET out == batch_out[consumed + 1]
       IN  IF out.ok
           THEN /\ retrieved_docs' =
                     retrieved_docs \o batched_docs(index, out.top_indices)
                /\ docs_scores' = docs_scores \o out.top_scores
                /\ consumed' = consumed + 1
                /\ UNCHANGED <<pc, error>>
           ELSE /\ Raise(out.err, "get_result", consumed + 1)
                /\ UNCHANGED <<retrieved_docs, docs_scores, consumed>>
    /\ UNCHANGED <<index, call, query, descending, index_embeddings, batches,
                   batch_state, batch_out, result, log, completed>>

\* find_batched, line 300: every batch was read
fb_return ==
    /\ UNCHANGED <<tensor_vars, stack_vars, type_vars>>
    /\ pc = "gather"
    /\ consumed = Len(batches)
    /\ result' = [documents |-> retrieved_docs, scores |-> docs_scores]
    /\ pc' = AfterBatched
    /\ UNCHANGED <<index, call, query, descending, index_embeddings, pool_vars,
                   error, log>>

\* find, line 119: FindResult(documents=docs[0], scores=scores[0])
find_return ==
    /\ UNCHANGED <<tensor_vars, stack_vars, type_vars>>
    /\ pc = "find_return"
    /\ result' = [documents |-> result.documents[1], scores |-> result.scores[1]]
    /\ pc' = "returned"
    /\ UNCHANGED <<index, call, query, descending, index_embeddings, pool_vars,
                   error, log>>

Next ==
    \/ Call
    \/ find_extract
    \/ fb_resolve
    \/ fb_prepare
    \/ fb_single_pass
    \/ fb_scatter
    \/ worker_start
    \/ worker_finish
    \/ fb_gather
    \/ fb_return
    \/ find_return

Spec == Init /\ [][Next]_vars

\* ------------------------------------------------- the tensor operations
\* A caller holds one tensor object (a TorchTensor, a native torch.Tensor or
\* a numpy array), or a message received from elsewhere.
TensorInit ==
    /\ index = DocList("tensor", Dim, <<>>)
    /\ SearchIdle
    /\ StackIdle
    /\ TypeIdle
    /\ ret = NoRet
    /\ \/ /\ msg = NoMsg
          /\ \E cls \in Classes, v \in TensorValues :
                /\ heap = <<Object(cls, 1, v)>>
                /\ storage = <<v.data>>
       \/ /\ msg \in ForeignMessages
          /\ heap = <<>>
          /\ storage = <<>>

\* t.to_protobuf() on a TorchTensor t of the heap
call_to_protobuf ==
    /\ \E o \in 1..Len(heap) :
          /\ heap[o].cls = "TorchTensor"
          /\ msg' = to_protobuf(Value(heap, storage, o))
          /\ ret' = [NoRet EXCEPT !.op = "to_protobuf", !.arg = ObjArg(o)]
    /\ UNCHANGED <<heap, storage>>
    /\ UNCHANGED <<search_vars, stack_vars, type_vars>>

\* TorchTensor.from_protobuf(msg) of the message written last or received;
\* the decoded tensor is a new object
call_from_protobuf ==
    /\ Len(heap) < MaxObj
    /\ LET r == from_protobuf(msg)
       IN  /\ ret' = [NoRet EXCEPT !.op = "from_protobuf", !.ok = r.ok,
                                   !.err = r.err,
                                   !.out = IF r.ok THEN Len(heap) + 1 ELSE 0]
           /\ IF r.ok
              THEN /\ heap' = Append(heap, Object("TorchTensor",
                                                  Len(storage) + 1, r.value))
                   /\ storage' = Append(storage, r.value.data)
              ELSE UNCHANGED <<heap, storage>>
    /\ UNCHANGED msg
    /\ UNCHANGED <<search_vars, stack_vars, type_vars>>

\* TorchTensor.validate(value) or TorchTensor[shape].validate(value), the
\* value an object of the heap or a python value
call_validate ==
    /\ \E decl \in DeclaredShapes,
          arg \in {ObjArg(o) : o \in 1..Len(heap)} \cup {PyArg("list"), PyArg("str")} :
          LET r == IF IsNone(decl)
                   THEN validate(heap, storage, arg)
                   ELSE validate_parametrized(heap, storage, Get(decl), arg)
          IN  /\ Len(r.heap) <= MaxObj
              /\ heap' = r.heap
              /\ storage' = r.storage
              /\ ret' = [NoRet EXCEPT !.op = "validate", !.ok = r.ok,
                                      !.err = r.err, !.arg = arg,
                                      !.out = r.out, !.decl = decl]
    /\ UNCHANGED msg
    /\ UNCHANGED <<search_vars, stack_vars, type_vars>>

\* t.unwrap() on a TorchTensor t of the heap
call_unwrap ==
    /\ Len(heap) < MaxObj
    /\ \E o \in 1..Len(heap) :
          /\ heap[o].cls = "TorchTensor"
          /\ LET r == unwrap(heap, storage, o)
             IN  /\ heap' = r.heap
                 /\ storage' = r.storage
                 /\ ret' = [NoRet EXCEPT !.op = "unwrap", !.arg = ObjArg(o),
                                         !.out = r.out]
    /\ UNCHANGED msg
    /\ UNCHANGED <<search_vars, stack_vars, type_vars>>

\* t.flatten()[0] = v through the object o: the first element of its memory
\* block is replaced by another value
write_element ==
    /\ \E o \in 1..Len(heap) :
          LET block == storage[heap[o].mem]
          IN  /\ Len(block) > 0
              /\ storage' = [storage EXCEPT ![heap[o].mem][1] =
                                 IF block[1] = 0 THEN 1 ELSE 0]
    /\ UNCHANGED <<heap, msg, ret>>
    /\ UNCHANGED <<search_vars, stack_vars, type_vars>>

TensorNext ==
    \/ call_to_protobuf
    \/ call_from_protobuf
    \/ call_validate
    \/ call_unwrap
    \/ write_element

TensorSpec == TensorInit /\ [][TensorNext]_vars

\* --------------------------------------------- the collection operations
\* A caller holds one list-form collection.
StackInit ==
    /\ index = DocList("tensor", Dim, <<>>)
    /\ SearchIdle
    /\ TensorIdle
    /\ TypeIdle
    /\ doclist \in DocLists
    /\ docvec = None
    /\ wire = NoWire
    /\ outcome = NoOutcome

\* docvec = to_columnar(doclist)
call_to_columnar ==
    /\ LET r == to_columnar(doclist)
       IN  /\ doclist' = r.source
           /\ docvec' = IF r.ok THEN Some(r.value) ELSE docvec
           /\ outcome' = [NoOutcome EXCEPT !.op = "to_columnar", !.ok = r.ok,
                                           !.err = r.err, !.at = r.at]
    /\ UNCHANGED wire
    /\ UNCHANGED <<search_vars, tensor_vars, type_vars>>

\* to_list(docvec)
call_to_list ==
    /\ ~IsNone(docvec)
    /\ outcome' = [NoOutcome EXCEPT !.op = "to_list", !.form = "list",
                                    !.list = to_list(Get(docvec))]
    /\ UNCHANGED <<doclist, docvec, wire>>
    /\ UNCHANGED <<search_vars, tensor_vars, type_vars>>

\* view_at(docvec, i).tensor.flatten()[0] = v, i 1-based: the first element
\* of the row is replaced by another value
call_view_write ==
    /\ ~IsNone(docvec)
    /\ RowSize(Get(docvec).column) > 0
    /\ \E i \in 1..Len(Get(docvec).ids) :
          LET old == row_of(Get(docvec).column, i).data[1]
          IN  /\ docvec' = Some(view_write(Get(docvec), i, 1,
                                           IF old = 0 THEN 1 ELSE 0))
              /\ outcome' = [NoOutcome EXCEPT !.op = "view_write", !.at = i]
    /\ UNCHANGED <<doclist, wire>>
    /\ UNCHANGED <<search_vars, tensor_vars, type_vars>>

\* the list-form collection is encoded
call_encode_list ==
    /\ wire' = encode_list(doclist)
    /\ outcome' = [NoOutcome EXCEPT !.op = "encode"]
    /\ UNCHANGED <<doclist, docvec>>
    /\ UNCHANGED <<search_vars, tensor_vars, type_vars>>

\* the columnar collection is encoded
call_encode_columnar ==
    /\ ~IsNone(docvec)
    /\ wire' = encode_columnar(Get(docvec))
    /\ outcome' = [NoOutcome EXCEPT !.op = "encode"]
    /\ UNCHANGED <<doclist, docvec>>
    /\ UNCHANGED <<search_vars, tensor_vars, type_vars>>

\* the message is decoded
call_decode ==
    /\ wire # NoWire
    /\ LET r == decode(wire)
       IN  outcome' = [NoOutcome EXCEPT !.op = "decode", !.ok = r.ok,
                                       !.err = r.err, !.form = r.form,
                                       !.list = r.list, !.columnar = r.columnar]
    /\ UNCHANGED <<doclist, docvec, wire>>
    /\ UNCHANGED <<search_vars, tensor_vars, type_vars>>

StackNext ==
    \/ call_to_columnar
    \/ call_to_list
    \/ call_view_write
    \/ call_encode_list
    \/ call_encode_columnar
    \/ call_decode

StackSpec == StackInit /\ [][StackNext]_vars

\* ------------------------------------- the parametrization of tensor types
EmbeddingInit ==
    /\ index = DocList("tensor", Dim, <<>>)
    /\ SearchIdle
    /\ TensorIdle
    /\ StackIdle
    /\ TypeIdle

\* Cls[item] in a schema declaration
class_getitem ==
    /\ \E cls \in EmbeddingClasses \cup TensorClasses, item \in Items :
          LET r == validate_getitem(cls, item)
          IN  param' = [cls |-> cls, item |-> item, ok |-> r.ok, err |-> r.err,
                        hint |-> r.hint, shape |-> r.shape]
    /\ UNCHANGED <<search_vars, tensor_vars, stack_vars>>

EmbeddingNext == class_getitem

EmbeddingSpec == EmbeddingInit /\ [][EmbeddingNext]_vars

\* ------------------------------------------------------------- properties
Done == pc \in {"returned", "raised"}
Chunked == call.api = "find_batched" /\ ~IsNone(call.batch_size)

\* what the single pass over all queries returns for the arguments of the
\* call in progress
Reference ==
    find_batched_single(index, call.query, call.metric, call.limit,
                        call.descending)

SameAsReference ==
    /\ Reference.ok
    /\ result.documents = Reference.documents
    /\ result.scores = Reference.scores

\* C1 as stated: whatever the batching configuration, find_batched returns
\* what the single pass returns, entry i being the result of query i.
C1_AnyConfiguration ==
    (call.api = "find_batched" /\ pc = "returned") => SameAsReference

\* C1, amended: with shuffle not set, find_batched returns what the single
\* pass returns, for every batch_size, worker count and completion order of
\* the batches; entry i is the result of query i.
C1_Deterministic ==
    (call.api = "find_batched" /\ ~call.shuffle /\ pc = "returned")
        => SameAsReference

\* a chunked call of several batches that finished out of submission order
\* has returned results
C1_Witness ==
    /\ Chunked /\ ~call.shuffle /\ pc = "returned"
    /\ Len(batches) >= 2
    /\ completed[1] # 1
    /\ \A i \in 1..Len(result.documents) : Len(result.documents[i]) >= 2

Sorted(row, desc) ==
    \A j \in 1..(Len(row) - 1) :
        IF desc THEN row[j] >= row[j + 1] ELSE row[j] <= row[j + 1]

\* the score sequences of the returned result, one per query
ResultScores == IF call.api = "find" THEN <<result.scores>> ELSE result.scores
ResultDocs == IF call.api = "find" THEN <<result.documents>> ELSE result.documents

\* C2: the scores of every per-query result of find and find_batched are
\* sorted, non-increasing when the search is descending and non-decreasing
\* when it is ascending.
C2_ScoresSorted ==
    pc = "returned" =>
        \A i \in 1..Len(ResultScores) : Sorted(ResultScores[i], descending)

\* an ascending distance search returned a strictly increasing score row,
\* in the chunked path
C2_Witness ==
    /\ pc = "returned" /\ Chunked
    /\ call.metric = euclidean_dist /\ ~descending
    /\ \E i \in 1..Len(result.scores) :
          /\ Len(result.scores[i]) >= 2
          /\ result.scores[i][1] < result.scores[i][2]

\* the name is some prefix followed by '_sim'
HasSimSuffix(m) ==
    \E n \in 0..Len(m) : m = SubSeq(m, 1, n) \o <<"_","s","i","m">>

\* find_batched has resolved the direction of the call in progress
Resolved == pc \notin {"idle", "find", "find_batched"} /\ error.by # "_extract_embedding_single"

\* C3: without a descending argument the search is descending exactly when
\* the metric name ends in '_sim'; a descending argument is used unchanged.
C3_DescendingDefault ==
    Resolved =>
        /\ IsNone(call.descending) => (descending <=> HasSimSuffix(call.metric))
        /\ ~IsNone(call.descending) => (descending = Get(call.descending))

\* the direction was defaulted for a name that holds '_sim' but does not
\* end in it
C3_Witness ==
    /\ Resolved
    /\ IsNone(call.descending)
    /\ call.metric = sim_dist
    /\ ~descending

\* d is the document stored in the index at some position
InIndex(d) == \E i \in 1..len(index) : d = getitem(index, i - 1)

\* C4: with limit <= M, find returns exactly limit documents and limit
\* scores, and every returned document is one stored in the index.
C4_ExactlyLimit ==
    (call.api = "find" /\ pc = "returned" /\ call.limit <= len(index)) =>
        /\ Len(result.documents) = call.limit
        /\ Len(result.scores) = call.limit
        /\ \A j \in 1..Len(result.documents) : InIndex(result.documents[j])

\* find returned fewer documents than the index holds
C4_Witness ==
    /\ call.api = "find" /\ pc = "returned"
    /\ call.limit < len(index)
    /\ Len(result.documents) = call.limit

\* every embedding of the query has the dimension of the index schema
GoodQuery(q) ==
    IF q.kind \in {"DocList", "BaseDoc"}
    THEN \A i \in 1..Len(q.docs) : q.docs[i].emb.shape = <<Dim>>
    ELSE q.column.shape[Len(q.column.shape)] = Dim

\* a call whose arguments give no reason to fail
ValidCall ==
    /\ call.api \in {"find", "find_batched"}
    /\ index.field \in {"tensor", "union"}
    /\ call.metric \in BackendMetrics
    /\ GoodQuery(call.query)
    /\ IsNone(call.batch_size) \/ Get(call.batch_size) > 0

\* C5: with limit > M >= 1, find and find_batched raise no error and return
\* for each query all M index documents, each exactly once, with M scores.
C5_AllDocuments ==
    (ValidCall /\ call.limit > len(index) /\ len(index) >= 1) =>
        /\ pc # "raised"
        /\ pc = "returned" =>
              \A i \in 1..Len(ResultDocs) :
                  /\ Len(ResultDocs[i]) = len(index)
                  /\ Len(ResultScores[i]) = len(index)
                  /\ \A p \in 1..len(index) :
                        Cardinality({j \in 1..Len(ResultDocs[i]) :
                            ResultDocs[i][j] = getitem(index, p - 1)}) = 1

\* a chunked search over several documents returned with limit > M
C5_Witness ==
    /\ ValidCall /\ Chunked /\ pc = "returned"
    /\ len(index) >= 2
    /\ call.limit > len(index)
    /\ Len(result.documents) >= 2

\* C6 as stated: on an empty index find and find_batched raise no error and
\* return empty results, whatever the declared type of the search field.
C6_EmptyIndex ==
    (ValidCall /\ len(index) = 0 /\ Done) =>
        /\ pc = "returned"
        /\ \A i \in 1..Len(ResultDocs) :
              Len(ResultDocs[i]) = 0 /\ Len(ResultScores[i]) = 0

\* the list form and the columnar form of a collection
AsList(da) ==
    IF da.kind = "DocVec" THEN DocList(da.field, da.dim, Elements(da)) ELSE da
Forms(da) ==
    IF da.kind = "DocVec" THEN {da, AsList(da)}
    ELSE IF da.kind = "DocList" /\ Stack([i \in 1..Len(da.docs) |-> da.docs[i].emb],
                                         da.dim).ok
    THEN {da, to_doc_vec(da)}
    ELSE {da}

Ids(docs) == [j \in 1..Len(docs) |-> docs[j].id]

\* C7: a search returns the same documents at the same ranks and equal
\* scores whether the index, the query collection, or both are in list form
\* or in columnar form.
C7_ListAndColumnar ==
    (pc = "returned" /\ ~call.shuffle) =>
        \A ix \in Forms(index), q \in Forms(call.query) :
            LET r == find_batched_single(ix, q, call.metric, call.limit,
                                         call.descending)
            IN  /\ r.ok
                /\ Len(r.documents) = Len(ResultDocs)
                /\ \A i \in 1..Len(ResultDocs) :
                      /\ Ids(r.documents[i]) = Ids(ResultDocs[i])
                      /\ r.scores[i] = ResultScores[i]

\* a search with both sides columnar returned ranked documents
C7_Witness ==
    /\ pc = "returned" /\ ~call.shuffle
    /\ index.kind = "DocVec" /\ call.query.kind = "DocVec"
    /\ Len(result.documents) >= 2
    /\ Len(result.documents[1]) >= 2

\* C8 as stated: a search field that is no tensor field, or does not exist,
\* makes find and find_batched fail with the typed error of the field type
\* check, before any embedding is extracted or any score computed.
C8_TypedErrorFirst ==
    (index.field \in {"nontensor", "missing"} /\ Done) =>
        /\ pc = "raised"
        /\ error.type = "ValueError"
        /\ error.by = "_da_attr_type"
        /\ log = <<"_da_attr_type">>

\* the query of find as a batch of one
OneRowBatch(q) ==
    IF q.kind = "BaseDoc" THEN DocList(q.field, q.dim, q.docs)
    ELSE RawTensor([shape |-> <<1, Len(q.column.data)>>, data |-> q.column.data])

\* C9: find with one document or a 1-D tensor returns the first and only
\* entry of find_batched on that query as a batch of one, and fails exactly
\* when that call fails.
C9_FindIsFirstEntry ==
    (call.api = "find" /\ Done) =>
        LET r == find_batched_single(index, OneRowBatch(call.query),
                                     call.metric, call.limit, call.descending)
        IN  /\ pc = "returned" <=> r.ok
            /\ pc = "returned" =>
                  /\ Len(r.documents) = 1
                  /\ result.documents = r.documents[1]
                  /\ result.scores = r.scores[1]

\* find on a document query returned several ranked documents
C9_Witness ==
    /\ call.api = "find" /\ pc = "returned"
    /\ call.query.kind = "BaseDoc"
    /\ Len(result.documents) >= 2
    /\ result.scores[1] # result.scores[2]

\* the computation of batch k fails
BatchFails(k) ==
    ~run_batch(batches[k], query.dim, index_embeddings, call.metric,
               call.limit, descending).ok

\* C10: in the chunked path a batch whose computation fails makes the whole
\* call fail with the error of that batch; nothing is returned then.
C10_AllOrNothing ==
    (Chunked /\ Done /\ Len(batches) > 0) =>
        /\ (\E k \in 1..Len(batches) : BatchFails(k)) => pc = "raised"
        /\ pc = "raised" =>
              /\ error.chunk \in 1..Len(batches)
              /\ BatchFails(error.chunk)
              /\ error.type = batch_out[error.chunk].err
              /\ result = NoResult

\* the call failed on a later batch after an earlier batch had been read
C10_Witness ==
    /\ Chunked /\ pc = "raised"
    /\ error.chunk >= 2
    /\ consumed >= 1
    /\ Len(retrieved_docs) >= 1

\* the number of query rows of a find_batched call and the embedding of row r
NQueries(q) == IF q.kind = "DocList" THEN Len(q.docs) ELSE NRows(q.column)
QueryRow(q, r) == IF q.kind = "DocList" THEN q.docs[r].emb.data ELSE Row(q.column, r)

\* the top-k selection for query row r: the scores of the row against every
\* document of the index, and the limit best of them
RowSelection(r) ==
    top_k(<<[m \in 1..len(index) |->
               Score(call.metric, QueryRow(call.query, r),
                     getitem(index, m - 1).emb.data)]>>,
          call.limit, descending)

\* entry i of the result is the selection for query row r: document j is the
\* index document at the j-th selected position, score j is the j-th selected
\* score and is the score of that document for that query row
EntryOf(i, r) ==
    LET sel == RowSelection(r)
    IN  /\ Len(result.documents[i]) = Len(sel.indices[1])
        /\ Len(result.scores[i]) = Len(sel.indices[1])
        /\ \A j \in 1..Len(sel.indices[1]) :
              /\ result.documents[i][j] = getitem(index, sel.indices[1][j])
              /\ result.scores[i][j] = sel.scores[1][j]
              /\ result.scores[i][j] =
                    Score(call.metric, QueryRow(call.query, r),
                          result.documents[i][j].emb.data)

BatchedReturned == call.api = "find_batched" /\ pc = "returned"

PlacesOf(d) ==
    {p \in (1..Len(batches)) \X (1..MaxQuery + MaxBatch) :
        /\ p[2] <= Len(batches[p[1]])
        /\ batches[p[1]][p[2]].id = d}

\* the batches cut the Q queries into pieces of batch_size, the last one
\* holding what remains, and hold every query exactly once
CutInChunks ==
    LET Q == NQueries(call.query)
        b == Get(call.batch_size)
        K == Len(batches)
    IN  /\ K >= 1
        /\ \A k \in 1..(K - 1) : Len(batches[k]) = b
        /\ Len(batches[K]) \in 1..b
        /\ (K - 1) * b + Len(batches[K]) = Q
        /\ \A r \in 1..Q : Cardinality(PlacesOf(getitem(query, r - 1).id)) = 1

\* C21: find_batched over Q queries returns exactly Q document lists and Q
\* score sequences, for batch_size None and for every positive batch_size,
\* whether or not it divides Q and when it is larger than Q; every query is
\* in exactly one batch and has exactly one entry of the result.
C21_OneEntryPerQuery ==
    BatchedReturned =>
        LET Q == NQueries(call.query)
        IN  /\ Len(result.documents) = Q
            /\ Len(result.scores) = Q
            /\ Chunked => CutInChunks
            /\ \E answered \in Perms(Q) : \A i \in 1..Q : EntryOf(i, answered[i])

\* a chunked call whose batch_size does not divide the number of queries has
\* returned: the last batch was smaller than the others
C21_Witness ==
    /\ BatchedReturned
    /\ Chunked
    /\ NQueries(call.query) % Get(call.batch_size) # 0
    /\ Len(batches) >= 2
    /\ Len(batches[Len(batches)]) < Get(call.batch_size)
    /\ Len(result.documents) = NQueries(call.query)

\* a chunked call whose batch_size is larger than the number of queries has
\* returned from its only batch
C21_LargeBatch ==
    /\ BatchedReturned
    /\ Chunked
    /\ Get(call.batch_size) > NQueries(call.query)
    /\ NQueries(call.query) >= 2
    /\ Len(batches) = 1

\* the call in progress was made with a batch_size that is not positive
BadBatchSize == ~IsNone(call.batch_size) /\ Get(call.batch_size) <= 0

\* nothing was handed to a worker pool and nothing was returned
NothingSubmitted ==
    /\ batches = <<>>
    /\ batch_state = <<>>
    /\ completed = <<>>
    /\ \A i \in 1..Len(log) : log[i] # "_map_docs_batched_multiarg"
    /\ result = NoResult

\* the error of the batch_size check, find.py lines 253-256
BatchSizeError == error.type = "ValueError" /\ error.by = "find_batched"

\* the steps find_batched takes before it looks at batch_size succeed:
\* the field type, the embeddings of the index and the metric function
PreparationSucceeds ==
    /\ da_attr_type(index).ok
    /\ extract_embeddings(index).ok
    /\ call.metric \in BackendMetrics

\* C22 as stated: find_batched with a batch_size that is zero or negative
\* fails with a ValueError, submits nothing to a pool and returns nothing.
C22_BadBatchSizeValueError ==
    (call.api = "find_batched" /\ BadBatchSize /\ Done) =>
        /\ pc = "raised"
        /\ error.type = "ValueError"
        /\ NothingSubmitted

\* C22, amended: find_batched with a batch_size that is zero or negative
\* fails, submits nothing to a pool and returns nothing; the error is the
\* ValueError of the batch_size check unless the field type, the index
\* embeddings or the metric lookup, which come first, have raised their own.
\* A batch_size of None never raises that error and never reaches the pool:
\* once the preparation is through, the call is on the single pass.
C22_BatchSizeChecked ==
    /\ (call.api = "find_batched" /\ BadBatchSize) =>
          /\ NothingSubmitted
          /\ pc \notin {"single_pass", "scatter", "gather", "returned"}
          /\ Done => pc = "raised"
          /\ (Done /\ PreparationSucceeds) => BatchSizeError
          /\ (Done /\ ~PreparationSucceeds) => ~BatchSizeError
    /\ (call.api \in {"find", "find_batched"} /\ IsNone(call.batch_size)) =>
          /\ ~BatchSizeError
          /\ batches = <<>>
          /\ \A i \in 1..Len(log) : log[i] # "_map_docs_batched_multiarg"
          /\ pc \notin {"scatter", "gather"}
          /\ (pc = "returned" \/ error.by = "get_result") =>
                \E i \in 1..Len(log) : log[i] = "_extract_embeddings(query)"

\* a call with batch_size 0 on a searchable index of several documents has
\* failed with the error of the batch_size check
C22_Witness ==
    /\ call.api = "find_batched"
    /\ call.batch_size = Some(0)
    /\ PreparationSucceeds
    /\ len(index) >= 2
    /\ pc = "raised"
    /\ BatchSizeError

\* a call with batch_size None has returned from the single pass
C22_NoneSinglePass ==
    /\ call.api = "find_batched"
    /\ IsNone(call.batch_size)
    /\ pc = "returned"
    /\ NQueries(call.query) >= 2

\* a step of a worker of the pool: it takes a batch or finishes one
WorkerStep == batch_state' # batch_state /\ batches' = batches

\* the batches whose state or output a step has written
Written ==
    {k \in 1..Len(batches) :
        batch_state'[k] # batch_state[k] \/ batch_out'[k] # batch_out[k]}

\* C23: no step of a find or find_batched call changes the index (its length,
\* its documents, their order and their embedding values) or the arguments
\* the caller passed, the query among them; a worker step writes the state
\* and the output of its own batch only, and leaves the index embeddings it
\* shares with the other workers, the batches and the accumulators of the
\* caller as they are.
C23_NoSideEffect ==
    [][/\ index' = index
       /\ len(index') = len(index)
       /\ Elements(index') = Elements(index)
       /\ call # NoCall => call' = call
       /\ index_embeddings # NoTensor => index_embeddings' = index_embeddings
       /\ WorkerStep =>
             /\ Cardinality(Written) = 1
             /\ index_embeddings' = index_embeddings
             /\ query' = query
             /\ retrieved_docs' = retrieved_docs
             /\ docs_scores' = docs_scores
             /\ result' = result]_vars

\* a chunked call on a columnar index of several documents has returned
\* after two workers finished their batches out of submission order
C23_Witness ==
    /\ BatchedReturned
    /\ Chunked
    /\ call.num_worker >= 2
    /\ index.kind = "DocVec"
    /\ len(index) >= 2
    /\ Len(completed) >= 2
    /\ completed[1] = 2

\* ------------------------------------------------ properties of the tensors
\* the bytes of the tensor object o of the state after a step
BytesAfter(o) == tobytes(dtype_str(heap'[o].dtype), storage'[heap'[o].mem])

\* the TorchTensor objects whose encoding is the message msg
EncodedBy ==
    {t \in 1..Len(heap) :
        heap[t].cls = "TorchTensor" /\ to_protobuf(Value(heap, storage, t)) = msg}

\* C11: for every TorchTensor t, zero-dimensional and zero-element tensors
\* included, from_protobuf(to_protobuf(t)) is a tensor of the dtype, the shape
\* and the bytes of t.
C11_ProtoRoundTrip ==
    [][call_from_protobuf =>
         \A t \in EncodedBy :
            /\ ret'.ok
            /\ heap'[ret'.out].cls = "TorchTensor"
            /\ heap'[ret'.out].dtype = heap[t].dtype
            /\ heap'[ret'.out].shape = heap[t].shape
            /\ BytesAfter(ret'.out) = msg.buffer]_vars

\* the same for the tensors that have an element: these round-trip
C11_NonEmptyRoundTrip ==
    [][call_from_protobuf =>
         \A t \in EncodedBy :
            Prod(heap[t].shape) > 0 =>
                /\ ret'.ok
                /\ heap'[ret'.out].dtype = heap[t].dtype
                /\ heap'[ret'.out].shape = heap[t].shape
                /\ BytesAfter(ret'.out) = msg.buffer]_vars

\* C12: decoding a message with an empty buffer and a non-empty shape yields
\* a tensor of exactly that shape, every element zero, and no error; decoding
\* a message with an empty buffer and an empty shape fails with an error and
\* yields no tensor.
C12_EmptyBuffer ==
    [][(call_from_protobuf /\ Len(msg.buffer) = 0) =>
         IF Len(msg.shape) > 0
         THEN /\ ret'.ok
              /\ ret'.err = ""
              /\ heap'[ret'.out].shape = msg.shape
              /\ storage'[heap'[ret'.out].mem] = Zeros(Prod(msg.shape))
         ELSE /\ ~ret'.ok
              /\ ret'.err = "ValueError"
              /\ ret'.out = 0
              /\ heap' = heap
              /\ storage' = storage]_vars

\* a message without buffer, of a shape with elements, was decoded
C12_Witness ==
    /\ ret.op = "from_protobuf"
    /\ ret.ok
    /\ Len(msg.buffer) = 0
    /\ Prod(msg.shape) > 0
    /\ Len(msg.shape) > 1

\* the declared dimensions are all fixed extents
AllFixed(shape) == \A i \in 1..Len(shape) : ~IsWild(shape[i])
FixedExtents(shape) == [i \in 1..Len(shape) |-> shape[i].n]

\* the value has the rank of the declared shape and another extent where the
\* declared shape fixes one
Conflicts(tshape, shape) ==
    /\ Len(tshape) = Len(shape)
    /\ \E i \in 1..Len(shape) : ~IsWild(shape[i]) /\ tshape[i] # shape[i].n

\* a step that validates the tensor object ret'.arg.obj against the declared
\* shape Get(ret'.decl)
ValidatesShape ==
    call_validate /\ ~IsNone(ret'.decl) /\ ret'.arg.obj # 0

\* a 1-D value of the size of the declared multi-dimensional shape is
\* accepted, reshaped to the declared shape, its elements in their order
FlatAccepted ==
    LET t == heap[ret'.arg.obj]
        decl == Get(ret'.decl)
    IN  (/\ Len(t.shape) = 1
         /\ Len(decl) > 1
         /\ AllFixed(decl)
         /\ Prod(t.shape) = Prod(FixedExtents(decl)))
        => /\ ret'.ok
           /\ heap'[ret'.out].shape = FixedExtents(decl)
           /\ storage'[heap'[ret'.out].mem] = storage[t.mem]

\* C14: validating a tensor value against a shape-parametrized tensor type
\* fails with a shape error whenever the shape of the value conflicts with a
\* fixed extent of the declared shape (same rank, another extent); a 1-D value
\* of a compatible size is accepted, reshaped to the declared shape, and keeps
\* its element order.
C14_ShapeEnforced ==
    [][ValidatesShape =>
          /\ Conflicts(heap[ret'.arg.obj].shape, Get(ret'.decl))
                => (~ret'.ok /\ ret'.err = "ShapeMismatch")
          /\ FlatAccepted]_vars

\* the second half of C14 alone: it holds
C14_FlatReshaped == [][ValidatesShape => FlatAccepted]_vars

\* C15: for a declared shape that uses one wildcard name at two positions
\* ([3, 'x', 'x']), validation accepts a value only when its extents at the
\* two positions are equal, accepts every value (3, e, e), and rejects a value
\* whose extents at the two positions differ.
C15_SameWildcard ==
    [][(ValidatesShape /\ ret'.decl = Some(SquareCrop)) =>
          LET tshape == heap[ret'.arg.obj].shape
          IN  /\ ret'.ok => (Len(tshape) = 3 /\ tshape[2] = tshape[3])
              /\ (Len(tshape) = 3 /\ tshape[1] = SquareCrop[1].n
                    /\ tshape[2] = tshape[3])
                   => (ret'.ok /\ heap'[ret'.out].shape = tshape)
              /\ (Len(tshape) = 3 /\ tshape[2] # tshape[3])
                   => (~ret'.ok /\ ret'.err = "ShapeMismatch")]_vars

\* a value (3, a, b) with a # b was rejected for [3, 'x', 'x']
C15_Witness ==
    /\ ret.op = "validate"
    /\ ret.decl = Some(SquareCrop)
    /\ ret.arg.obj # 0
    /\ ~ret.ok
    /\ LET tshape == heap[ret.arg.obj].shape
       IN  /\ Len(tshape) = 3
           /\ tshape[1] = SquareCrop[1].n
           /\ tshape[2] # tshape[3]
           /\ tshape[2] > 0
           /\ tshape[3] > 0

\* a step of TorchTensor.validate, the type not parametrized
ValidatesPlain == call_validate /\ IsNone(ret'.decl)

\* the two tensor cases of C16, the failure and the class of the result
TensorsShared ==
    LET arg == ret'.arg
    IN  /\ ret'.ok => heap'[ret'.out].cls = "TorchTensor"
        /\ (arg.obj # 0 /\ heap[arg.obj].cls = "TorchTensor")
              => (ret'.ok /\ ret'.out = arg.obj /\ heap' = heap)
        /\ (arg.obj # 0 /\ heap[arg.obj].cls = "torch.Tensor")
              => (ret'.ok /\ heap'[ret'.out].mem = heap[arg.obj].mem)
        /\ arg = PyArg("str") => (~ret'.ok /\ ret'.err = "ValueError")
        /\ \A b \in 1..Len(storage) : storage'[b] = storage[b]

\* C16: a successful TorchTensor.validate never copies tensor data: a
\* TorchTensor is returned as the same object, a native torch.Tensor as a
\* TorchTensor on the memory of the input; a value that is neither a tensor
\* nor convertible fails with ValueError; the result is always a TorchTensor.
C16_NoCopy ==
    [][ValidatesPlain =>
          /\ TensorsShared
          /\ (ret'.ok /\ ret'.arg.obj # 0)
                => heap'[ret'.out].mem = heap[ret'.arg.obj].mem]_vars

\* C16 for tensor arguments alone: it holds
C16_TensorsShared == [][ValidatesPlain => TensorsShared]_vars

\* the last tensor operation was unwrap: the TorchTensor it was called on and
\* the tensor it returned
Unwrapped == ret.op = "unwrap"
UnwrapSelf == ret.arg.obj
UnwrapOut == ret.out

\* C24: unwrap returns a new object of class torch.Tensor on the memory of
\* the TorchTensor it was called on; that TorchTensor keeps its class, shape,
\* dtype and values, and so does every other object; a later write that
\* changes what the returned tensor holds changes what the TorchTensor holds
\* in the same way.
C24_UnwrapShares ==
    [][/\ call_unwrap =>
             /\ ret'.out \notin 1..Len(heap)
             /\ heap'[ret'.out].cls = "torch.Tensor"
             /\ heap'[ret'.out].mem = heap[ret'.arg.obj].mem
             /\ heap'[ret'.out].shape = heap[ret'.arg.obj].shape
             /\ heap'[ret'.out].dtype = heap[ret'.arg.obj].dtype
             /\ heap'[ret'.arg.obj].cls = "TorchTensor"
             /\ \A o \in 1..Len(heap) :
                   /\ heap'[o] = heap[o]
                   /\ Value(heap', storage', o) = Value(heap, storage, o)
             /\ Value(heap', storage', ret'.out).data
                   = Value(heap, storage, ret'.arg.obj).data
       /\ (Unwrapped /\ ret' = ret) =>
             /\ heap'[UnwrapSelf].cls = "TorchTensor"
             /\ heap'[UnwrapOut].cls = "torch.Tensor"
             /\ Value(heap', storage', UnwrapSelf).data
                   = Value(heap', storage', UnwrapOut).data
             /\ (Value(heap', storage', UnwrapOut).data
                    # Value(heap, storage, UnwrapOut).data)
                  => (Value(heap', storage', UnwrapSelf).data
                        # Value(heap, storage, UnwrapSelf).data)]_vars

\* after unwrap of an int16 tensor of several elements, which starts with 1,
\* a write has set the first element to 0, and both objects hold it
C24_Witness ==
    /\ Unwrapped
    /\ heap[UnwrapSelf].cls = "TorchTensor"
    /\ heap[UnwrapOut].cls = "torch.Tensor"
    /\ heap[UnwrapSelf].dtype = "int16"
    /\ Len(storage[heap[UnwrapOut].mem]) >= 2
    /\ Value(heap, storage, UnwrapOut).data[1] = 0
    /\ Value(heap, storage, UnwrapSelf).data[1] = 0

\* ------------------------------------- properties of the embedding types
\* C25: an embedding type parametrized with a shape of more than one
\* dimension raises ValueError and gives no shape; parametrized with a shape
\* of exactly one dimension it succeeds and gives the shape of that one
\* extent.
C25_SingleAxis ==
    param.cls \in EmbeddingClasses =>
        /\ ItemRank(param.item) > 1 =>
              /\ ~param.ok
              /\ param.err = "ValueError"
              /\ param.shape = <<>>
        /\ ItemRank(param.item) = 1 =>
              /\ param.ok
              /\ Len(param.shape) = 1
              /\ param.shape[1] = IF param.item.kind = "int"
                                  THEN Fixed(param.item.n)
                                  ELSE param.item.dims[1]

\* TorchEmbedding declared with a shape of MaxRank extents was refused
C25_Witness ==
    /\ param.cls = "TorchEmbedding"
    /\ ItemRank(param.item) = MaxRank
    /\ MaxRank > 1
    /\ ~param.ok
    /\ param.hint = "TorchTensor"

\* NdArrayEmbedding declared with one integer has the shape of that extent
C25_OneExtent ==
    /\ param.cls = "NdArrayEmbedding"
    /\ param.item = IntItem(MaxExtent)
    /\ param.ok
    /\ param.shape = <<Fixed(MaxExtent)>>

\* -------------------------------------------- properties of the collections
\* the two tensors have the same dtype, the same shape and the same bytes
SameTensor(x, y) ==
    /\ x.dtype = y.dtype
    /\ x.shape = y.shape
    /\ tobytes(dtype_str(x.dtype), x.data) = tobytes(dtype_str(y.dtype), y.data)

\* the message on the wire is the encoding of the columnar collection
WireIsColumnar == ~IsNone(docvec) /\ wire = encode_columnar(Get(docvec))

\* C13: encoding a columnar collection and decoding the message yields a
\* columnar collection again, never a list-form one, with the same number of
\* documents and, for every slot, a tensor field of the shape and the values
\* of the original, for the torch and the numpy backend.
C13_ColumnarRoundTrip ==
    [][(call_decode /\ WireIsColumnar) =>
          LET c == Get(docvec)
              d == outcome'.columnar
          IN  /\ outcome'.ok
              /\ outcome'.form = "columnar"
              /\ outcome'.list = NoList
              /\ Len(d.ids) = Len(c.ids)
              /\ d.column.shape[1] = Len(c.ids)
              /\ \A i \in 1..Len(c.ids) :
                    /\ row_of(d.column, i).shape = row_of(c.column, i).shape
                    /\ row_of(d.column, i).data = row_of(c.column, i).data]_vars

\* a columnar collection of MaxDocs documents with elements came back
\* columnar from the wire
C13_Witness ==
    /\ outcome.op = "decode"
    /\ outcome.ok
    /\ outcome.form = "columnar"
    /\ WireIsColumnar
    /\ Len(outcome.columnar.ids) = MaxDocs
    /\ RowSize(outcome.columnar.column) > 0

\* the columnar collection is the one stacking makes of the list collection
StackedFromList ==
    to_columnar(doclist).ok /\ docvec = Some(to_columnar(doclist).value)

HasMismatch(l) ==
    \E k \in 1..Len(l.docs) : ~FixedAgree(l.docs[k].tensor.shape, l.decl)

\* C18: when a document of the list has a fixed-extent mismatch, to_columnar
\* fails with a shape error, no columnar collection, complete or partial,
\* becomes visible, and the list collection is as before the call.
C18_StackAllOrNothing ==
    [][(call_to_columnar /\ HasMismatch(doclist)) =>
          /\ ~outcome'.ok
          /\ outcome'.err = "ShapeMismatch"
          /\ docvec' = None
          /\ doclist' = doclist]_vars

\* stacking failed on the document in the middle of MaxDocs documents
C18_Witness ==
    /\ outcome.op = "to_columnar"
    /\ ~outcome.ok
    /\ Len(doclist.docs) = MaxDocs
    /\ outcome.at > 1
    /\ outcome.at < MaxDocs

\* C19: a write of a tensor field through the view document at index i
\* changes row i of the backing column, a later read of row i sees the written
\* value, and the rows at every other index are unchanged.
C19_ViewWrite ==
    [][call_view_write =>
          LET i == outcome'.at
              before == Get(docvec).column
              after == Get(docvec').column
              old == row_of(before, i).data[1]
          IN  /\ row_of(after, i).data[1] = (IF old = 0 THEN 1 ELSE 0)
              /\ row_of(after, i).data[1] # old
              /\ Tail(row_of(after, i).data) = Tail(row_of(before, i).data)
              /\ after.shape = before.shape
              /\ \A j \in 1..Len(Get(docvec).ids) :
                    j # i => row_of(after, j) = row_of(before, j)]_vars

\* the view at the middle document of MaxDocs documents was written
C19_Witness ==
    /\ outcome.op = "view_write"
    /\ ~IsNone(docvec)
    /\ Len(Get(docvec).ids) = MaxDocs
    /\ outcome.at > 1
    /\ outcome.at < MaxDocs

====
